---- MODULE Spec2Model ----
(***************************************************************************)
(* Model of the parallel coordinator (parallel.py) together with the       *)
(* scheduler (scheduler.py), the worktree / merge driver (merge.py), the   *)
(* result-descriptor loader (parallel_progress.py) and the tracker status  *)
(* check (linear_status.py).                                               *)
(*                                                                         *)
(* One behaviour of Spec is one call of run_parallel_agent, from the       *)
(* tracker state sync to the final summary.  Worker processes, worktree    *)
(* creation, tracker calls and the merge command are the environment:      *)
(* their outcomes are chosen nondeterministically.                         *)
(***************************************************************************)
EXTENDS Integers, Sequences, FiniteSets, TLC

\* ---------------------------------------------------------------- bounds
NumIssues == 2
MaxWorkersInput == 2
MaxTaskRaises == 1
MaxTrackerFailures == 1
MaxStaleIds == 1
MaxListLen == 2
\* words in one output stream of a git command
MaxStreamLen == 2
\* jobs in data/queue.json
MaxJobs == 2

\* ------------------------------------------------------- program constants
DEFAULT_TIER == 4
\* the largest max_workers run_parallel_agent accepts
MAX_WORKERS_LIMIT == 5
SEQUENTIAL_TIERS == {1, 7}
TierNumbers == 1..7

\* identifiers of the issues the plan file was built from, in file order
IssueNames == << "T-1", "T-2", "T-3", "T-4" >>
IssueIds == {IssueNames[n] : n \in 1..NumIssues}
NoIssue == "none"

\* categories drawn for the issues of .linear_project.json
Categories == {"setup", "backend"}
\* state types a tracker call can yield for an identifier
StateTypes == {"completed", "canceled", "unknown", "started"}
COMPLETED_STATE_TYPES == {"completed"}
CANCELLED_STATE_TYPES == {"canceled"}

\* --------------------------------------------------------------- helpers
Range(s) == {s[n] : n \in DOMAIN s}

Min(a, b) == IF a < b THEN a ELSE b

SubSeqFrom(s, first, count) ==
    [n \in 1..Min(count, Len(s) - first) |-> s[first + n]]

\* CATEGORY_TIERS.get(category, DEFAULT_TIER)
CATEGORY_TIERS(category) ==
    CASE category = "setup" -> 1
      [] category = "backend" -> 2
      [] category = "frontend" -> 3
      [] category = "a2ui-catalog" -> 3
      [] category = "feature" -> 4
      [] category = "styling" -> 5
      [] category = "testing" -> 6
      [] category = "integration" -> 7
      [] OTHER -> DEFAULT_TIER

\* TIER_DESCRIPTIONS.get(tier_num, f"tier {tier_num}"); every tier number
\* CATEGORY_TIERS yields is a key of the table
TIER_DESCRIPTIONS(tier_num) ==
    CASE tier_num = 1 -> "setup (project foundation)"
      [] tier_num = 2 -> "backend (API and data layer)"
      [] tier_num = 3 -> "frontend + a2ui-catalog (UI components)"
      [] tier_num = 4 -> "feature (integration features)"
      [] tier_num = 5 -> "styling (visual polish)"
      [] tier_num = 6 -> "testing (validation)"
      [] tier_num = 7 -> "integration (cross-cutting)"
      [] OTHER -> "tier n"

\* str.lower() on the strings that occur in the model
lower(str) ==
    CASE str = "Setup" -> "setup"
      [] str = "BACKEND" -> "backend"
      [] str = "Integration" -> "integration"
      [] str = "CONFLICT" -> "conflict"
      [] str = "Conflict" -> "conflict"
      [] OTHER -> str

\* dict.get(key, default)
get(dict, key, default) ==
    IF key \in DOMAIN dict THEN dict[key] ELSE default

\* the issue list the plan was built from, in file order
IssueList == [n \in 1..NumIssues |-> IssueNames[n]]

\* a tier lookup that compares the category as written
tier_num_of_as_written(issue) == CATEGORY_TIERS(get(issue, "category", ""))

\* lines 134-135: the tier number of an issue
tier_num_of(issue) == CATEGORY_TIERS(lower(get(issue, "category", "")))

\* seq of f(x) for the issues x
RECURSIVE IdsOf(_)
IdsOf(issues) ==
    IF issues = << >> THEN << >>
    ELSE << Head(issues).id >> \o IdsOf(Tail(issues))

\* ParallelPlan.__post_init__: total_issues = sum of the tier sizes
RECURSIVE total_issues(_)
total_issues(p) ==
    IF p = << >> THEN 0 ELSE Len(Head(p).issue_ids) + total_issues(Tail(p))

\* ParallelPlan(tiers=..., max_parallelism=..., created_at=...)
ParallelPlan(tiers, max_parallelism, created_at) ==
    [tiers |-> tiers, max_parallelism |-> max_parallelism,
     created_at |-> created_at, total_issues |-> total_issues(tiers)]

\* a build_plan whose tier_groups entry keeps only the last identifier
\* (assignment instead of append)
RECURSIVE BuildTiers_overwrite(_, _)
BuildTiers_overwrite(issues, t) ==
    IF t > 7 THEN << >>
    ELSE LET ids == IdsOf(SelectSeq(issues, LAMBDA x : tier_num_of(x) = t))
         IN  IF ids = << >>
             THEN BuildTiers_overwrite(issues, t + 1)
             ELSE << [tier |-> t, issue_ids |-> << ids[Len(ids)] >>,
                      description |-> TIER_DESCRIPTIONS(t),
                      sequential |-> (t \in SEQUENTIAL_TIERS)] >>
                  \o BuildTiers_overwrite(issues, t + 1)

\* tier numbers in the order the issue list first mentions them
RECURSIVE FirstSeen(_, _)
FirstSeen(issues, seen) ==
    IF issues = << >> THEN << >>
    ELSE LET t == tier_num_of(Head(issues))
         IN  IF t \in seen THEN FirstSeen(Tail(issues), seen)
             ELSE << t >> \o FirstSeen(Tail(issues), seen \cup {t})

\* a build_plan that iterates tier_groups.keys() without sorted()
BuildTiers_unsorted(issues, t) ==
    LET order == FirstSeen(issues, {})
    IN  [n \in DOMAIN order |->
            [tier |-> order[n],
             issue_ids |-> IdsOf(SelectSeq(issues,
                               LAMBDA x : tier_num_of(x) = order[n])),
             description |-> TIER_DESCRIPTIONS(order[n]),
             sequential |-> (order[n] \in SEQUENTIAL_TIERS)]]

\* build_plan, lines 131-149: group the identifiers by tier number in input
\* order (tier_groups), then emit the groups in ascending tier number
RECURSIVE BuildTiers(_, _)
BuildTiers(issues, t) ==
    IF t > 7 THEN << >>
    ELSE LET ids == IdsOf(SelectSeq(issues, LAMBDA x : tier_num_of(x) = t))
         IN  IF ids = << >>
             THEN BuildTiers(issues, t + 1)
             ELSE << [tier |-> t, issue_ids |-> ids,
                      description |-> TIER_DESCRIPTIONS(t),
                      sequential |-> (t \in SEQUENTIAL_TIERS)] >>
                  \o BuildTiers(issues, t + 1)

\* the value of datetime.now(timezone.utc).isoformat() when a plan is built
Now == "2025-01-01T00:00:00+00:00"

build_plan(issues, max_parallelism) ==
    ParallelPlan(BuildTiers(issues, 1), max_parallelism, Now)

\* ParallelPlan.to_dict
to_dict(p) ==
    [created_at |-> p.created_at,
     max_parallelism |-> p.max_parallelism,
     total_issues |-> p.total_issues,
     tiers |-> [n \in DOMAIN p.tiers |->
                   [tier |-> p.tiers[n].tier,
                    description |-> p.tiers[n].description,
                    sequential |-> p.tiers[n].sequential,
                    issue_ids |-> p.tiers[n].issue_ids]]]

\* a from_dict that does not read the key "sequential"
from_dict_default_sequential(data) ==
    ParallelPlan([n \in DOMAIN data.tiers |->
                     [tier |-> data.tiers[n].tier,
                      issue_ids |-> data.tiers[n].issue_ids,
                      description |-> data.tiers[n].description,
                      sequential |-> FALSE]],
                 data.max_parallelism,
                 get(data, "created_at", ""))

\* ParallelPlan.from_dict: total_issues is not read, __post_init__ sets it
from_dict(data) ==
    ParallelPlan([n \in DOMAIN data.tiers |->
                     [tier |-> data.tiers[n].tier,
                      issue_ids |-> data.tiers[n].issue_ids,
                      description |-> data.tiers[n].description,
                      sequential |-> get(data.tiers[n], "sequential", FALSE)]],
                 data.max_parallelism,
                 get(data, "created_at", ""))

\* save_plan: json.dump(plan.to_dict(), f) writes the dict as a JSON
\* document; strings, integers, booleans and lists come back unchanged from
\* json.load, so the file is modelled by the dict it holds
save_plan(p) == << to_dict(p) >>

\* load_plan: None (<< >>) when the file does not exist
load_plan(file) ==
    IF file = << >> THEN << >> ELSE << from_dict(file[1]) >>

\* get_ready_issues: index (in the plan) of the first tier that has an
\* identifier not in completed, 0 when there is none
RECURSIVE FirstOpenTier(_, _, _)
FirstOpenTier(p, done, n) ==
    IF n > Len(p) THEN 0
    ELSE IF SelectSeq(p[n].issue_ids, LAMBDA id : id \notin done) = << >>
         THEN FirstOpenTier(p, done, n + 1)
         ELSE n

\* mutant: the last tier with an unfinished identifier instead of the first
get_ready_issues_last(p, done) ==
    LET open == {n \in 1..Len(p) :
                    SelectSeq(p[n].issue_ids, LAMBDA id : id \notin done) # << >>}
        n == IF open = {} THEN 0
             ELSE CHOOSE x \in open : \A y \in open : y <= x
    IN  [tier_pos |-> n,
         ready_ids |-> IF n = 0 THEN << >>
                       ELSE SelectSeq(p[n].issue_ids, LAMBDA id : id \notin done)]

\* a get_ready_issues that returns the whole tier, finished identifiers too
get_ready_issues_whole_tier(p, done) ==
    LET n == FirstOpenTier(p, done, 1)
    IN  [tier_pos |-> n,
         ready_ids |-> IF n = 0 THEN << >> ELSE p[n].issue_ids]

get_ready_issues(p, done) ==
    LET n == FirstOpenTier(p, done, 1)
    IN  [tier_pos |-> n,
         ready_ids |-> IF n = 0 THEN << >>
                       ELSE SelectSeq(p[n].issue_ids, LAMBDA id : id \notin done)]


\* mutant: an identifier whose call failed is put in the completed set
check_issue_statuses_fail_closed(ids, st) ==
    [completed |-> {id \in Range(ids) :
                       st[id] \in COMPLETED_STATE_TYPES \cup {"unknown"}},
     cancelled |-> {id \in Range(ids) : st[id] \in CANCELLED_STATE_TYPES}]

\* check_issue_statuses: one tracker call per identifier; st[id] is the state
\* type the call for id yields ("unknown" when the call failed)
check_issue_statuses(ids, st) ==
    [completed |-> {id \in Range(ids) : st[id] \in COMPLETED_STATE_TYPES},
     cancelled |-> {id \in Range(ids) : st[id] \notin COMPLETED_STATE_TYPES
                                        /\ st[id] \in CANCELLED_STATE_TYPES}]

\* load_worker_result: None when the file does not exist or does not parse,
\* else the descriptor's status
load_worker_result(file) ==
    IF file \in {"absent", "malformed"} THEN "None" ELSE file

\* all_results is a dict: assignment to an existing key keeps its position,
\* a new key goes last
ResultPut(res, id, st) ==
    IF \E n \in DOMAIN res : res[n].issue_id = id
    THEN [n \in DOMAIN res |->
             IF res[n].issue_id = id THEN [issue_id |-> id, status |-> st]
             ELSE res[n]]
    ELSE Append(res, [issue_id |-> id, status |-> st])

ResultKeys(res) == {res[n].issue_id : n \in DOMAIN res}

\* result_dict.get(issue_id, {}).get("status")
ResultStatus(res, id) ==
    IF id \in ResultKeys(res)
    THEN res[CHOOSE n \in DOMAIN res : res[n].issue_id = id].status
    ELSE "none"

WorkerIndexes == 0..(NumIssues - 1)

VARIABLES
    category,          \* issue id -> category in .linear_project.json
    state_type,        \* issue id -> state type the tracker call yields
    max_workers,       \* parameter of run_parallel_agent
    plan,              \* plan.tiers
    issue_lookup,      \* identifiers of the issues of .linear_project.json
    pc,                \* position of the coordinator
    completed,         \* local set `completed`
    completed_issues,  \* progress.completed_issues
    failed_issues,     \* progress.failed_issues
    requeued_issues,   \* progress.requeued_issues
    tiers_completed,   \* progress.tiers_completed
    tier_completed_ids,\* tier_progress.completed_ids
    tier_failed_ids,   \* tier_progress.failed_ids
    requeued,          \* list `requeued`
    tier_iter,         \* iterations of `for tier in plan.tiers` begun
    current_tier,      \* position in plan of current_tier, 0 if none
    caller,            \* "tier" or "retry": who called _run_tier_parallel
    ri,                \* position in `requeued` of the retry loop
    tier_issues,       \* argument tier_issues of _run_tier_parallel
    mw,                \* argument max_workers of _run_tier_parallel
    wave_start,        \* loop variable wave_start
    all_results,       \* dict all_results, in insertion order
    i,                 \* loop variable i (set-up loop and collect loop)
    spawn_tasks,       \* list spawn_tasks: issue_id and worker_index of each
    worker_results,    \* gather slots: "pending", "returned", "exception"
    worktree,          \* worker index -> issue whose branch .workers/w<i> holds
    branches,          \* issues whose branch parallel/<id> exists
    main_line,         \* number of merge commits made on the main line
    procs,             \* live worker processes
    result_file,       \* issue id -> content of .workers/results/<id>.json
    raises,            \* _spawn_worker tasks that raised while relaying output
    merge_results,     \* dict merge_results of the tier
    mi,                \* position in results.items()
    merging,           \* issue whose merge command is running, NoIssue if none
    mr,                \* MergeResult of the last merge_branch call
    executed,          \* history: tier numbers executed, in order
    spawned,           \* history: issues a worker process was started for
    attempt,           \* history: what the attempt of an issue in the
                       \* current _run_tier_parallel call did
    project_dir,       \* the project directory exists
    \* --- scheduler.py called on its own (no coordinator run)
    origin,            \* where sched_plan comes from: "issues" (not built
                       \* yet), "build_plan", "constructed", "idle"
    issues,            \* argument `issues` of build_plan
    sched_plan,        \* << >> or << a ParallelPlan object >>
    ready,             \* << >> or << arguments and return value of
                       \* get_ready_issues >>
    plan_file,         \* .parallel_plan.json: << >> (absent) or << dict >>
    loaded,            \* << >> or << return value of load_plan >>
    \* --- merge.py: one call of merge_branch
    git_proc,          \* the `git merge` process when it has exited: its
                       \* returncode and the bytes of its two streams
    git_calls,         \* git subcommands merge_branch has run, in order
    merge_result,      \* << >> or << MergeResult returned by merge_branch >>
    \* --- queue_runner.py: one invocation of `start`
    queue_file,        \* data/queue.json: the list of job records
    app_spec,          \* prompts/app_spec.txt: << >> (absent) or << bytes >>
    backup_file,       \* prompts/app_spec.txt.bak: << >> or << bytes >>
    dry_run,           \* args.dry_run
    q_pc,              \* position of cmd_start / _run_job
    state_jobs,        \* state.jobs of cmd_start (the job objects in memory)
    processable,       \* list `processable`: positions in state.jobs
    q_pos,             \* position in `processable` of the loop variable job
    spec_swapped,      \* local spec_swapped of _run_job
    raised,            \* exception propagating out of _run_job, or "none"
    interrupted,       \* local `interrupted` of cmd_start
    exit_status,       \* << >> or << return value of cmd_start >>
    ki_arrived,        \* history: the user has sent the interrupt signal
    job_log,           \* history: per job of state.jobs, what its run did
    \* --- queue_runner.py: `add` commands
    add_args,          \* << >> or << args of the last cmd_add >>
    \* --- queue_runner.py: `start` killed and invoked again
    killed,            \* a `start` process has been killed
    spec_before,       \* history: app_spec.txt before the first `start`
    \* --- linear_status.py: one call of check_issue_statuses
    issue_identifiers, \* argument issue_identifiers
    api_key_set,       \* ARCADE_API_KEY is set
    cs_pc,             \* "idle", "client", "loop", "returned", "raised"
    cs_completed,      \* local set `completed`
    cs_cancelled,      \* local set `cancelled`
    status_map,        \* dict status_map, in insertion order
    tracker_calls,     \* history: identifier and response of each
                       \* client.tools.execute call, in order
    \* --- worker.py: one worker process
    w_pc,              \* position of main
    w_fault,           \* the step of run_worker that raises, "none" if none
    w_response,        \* response_text the agent produces
    w_result,          \* << >> or << result dict returned by run_worker >>
    descriptor,        \* file at args.result_path: << >> (absent),
                       \* << "stale" >>, << "truncated" >> or << status >>
    w_exit,            \* << >> or << exit code of the process >>
    w_interrupt        \* history: where the user's interrupt arrived

schedVars == << origin, issues, sched_plan, ready, plan_file, loaded >>
\* what a coordinator run leaves alone
vcsVars == << git_proc, git_calls, merge_result >>
queueVars == << queue_file, app_spec, backup_file, dry_run, q_pc, state_jobs,
                processable, q_pos, spec_swapped, raised, interrupted,
                exit_status, ki_arrived, job_log >>
addVars == << add_args >>
restartVars == << killed, spec_before >>
statusVars == << issue_identifiers, api_key_set, cs_pc, cs_completed,
                 cs_cancelled, status_map, tracker_calls >>
workerVars == << w_pc, w_fault, w_response, w_result, descriptor, w_exit,
                 w_interrupt >>
outsideVars == << schedVars, vcsVars, queueVars, addVars, statusVars, workerVars, restartVars >>

inputVars == << category, state_type, max_workers, plan, issue_lookup,
                project_dir, outsideVars >>
progVars == << completed, completed_issues, failed_issues, requeued_issues,
               tiers_completed, tier_completed_ids, tier_failed_ids, requeued >>
loopVars == << tier_iter, current_tier, caller, ri >>
callVars == << tier_issues, mw, wave_start, all_results >>
waveVars == << i, spawn_tasks, worker_results >>
gitVars == << worktree, branches, main_line >>
envVars == << procs, result_file, raises >>
mergeVars == << merge_results, mi, merging, mr >>
histVars == << executed, spawned, attempt >>

vars == << inputVars, pc, progVars, loopVars, callVars, waveVars, gitVars,
           envVars, mergeVars, histVars >>

NoAttempt == [id \in IssueIds |-> "none"]
NoMerge == [success |-> FALSE, conflict |-> FALSE]

\* run_parallel_agent when it is called: the locals of the run
CoordinatorStart ==
    /\ pc = "start"
    /\ completed = {}
    /\ completed_issues = {}
    /\ failed_issues = {}
    /\ requeued_issues = {}
    /\ tiers_completed = 0
    /\ tier_completed_ids = {}
    /\ tier_failed_ids = {}
    /\ requeued = << >>
    /\ tier_iter = 0
    /\ current_tier = 0
    /\ caller = "tier"
    /\ ri = 0
    /\ tier_issues = << >>
    /\ mw = 1
    /\ wave_start = 0
    /\ all_results = << >>
    /\ i = 0
    /\ spawn_tasks = << >>
    /\ worker_results = << >>
    /\ worktree = [w \in WorkerIndexes |-> NoIssue]
    /\ branches = {}
    /\ main_line = 0
    /\ procs = {}
    /\ result_file = [id \in IssueIds |-> "absent"]
    /\ raises = 0
    /\ merge_results = << >>
    /\ mi = 0
    /\ merging = NoIssue
    /\ mr = NoMerge
    /\ executed = << >>
    /\ spawned = {}
    /\ attempt = NoAttempt

\* scheduler.py is not called on its own
NoSchedulerCaller ==
    /\ origin = "idle"
    /\ issues = << >>
    /\ sched_plan = << >>
    /\ ready = << >>
    /\ loaded = << >>

\* ... and there is no plan file
SchedIdle ==
    /\ NoSchedulerCaller
    /\ plan_file = << >>

\* merge_branch is not called on its own
VcsIdle ==
    /\ git_proc = [returncode |-> 0, stdout |-> << >>, stderr |-> << >>]
    /\ git_calls = << >>
    /\ merge_result = << >>

\* the queue driver is not invoked
QueueIdle ==
    /\ queue_file = << >>
    /\ app_spec = << >>
    /\ backup_file = << >>
    /\ dry_run = FALSE
    /\ q_pc = "idle"
    /\ state_jobs = << >>
    /\ processable = << >>
    /\ q_pos = 0
    /\ spec_swapped = FALSE
    /\ raised = "none"
    /\ interrupted = FALSE
    /\ exit_status = << >>
    /\ ki_arrived = FALSE
    /\ job_log = << >>

\* no `add` command has run
AddIdle == add_args = << >>

\* no `start` process is killed
RestartIdle == killed = FALSE /\ spec_before = << >>

\* check_issue_statuses is not called on its own
StatusIdle ==
    /\ issue_identifiers = << >>
    /\ api_key_set = TRUE
    /\ cs_pc = "idle"
    /\ cs_completed = {}
    /\ cs_cancelled = {}
    /\ status_map = << >>
    /\ tracker_calls = << >>

\* no worker process is looked at on its own
WorkerIdle ==
    /\ w_pc = "idle"
    /\ w_fault = "none"
    /\ w_response = [block |-> "none"]
    /\ w_result = << >>
    /\ descriptor = << >>
    /\ w_exit = << >>
    /\ w_interrupt = "none"

OutsideIdle == NoSchedulerCaller /\ VcsIdle /\ QueueIdle /\ AddIdle /\ StatusIdle /\ WorkerIdle /\ RestartIdle

\* the values of the parameter max_workers: the accepted ones and one
\* beyond each end of the range
MaxWorkersArgs == 0..(MAX_WORKERS_LIMIT + 1)

\* created_at of a plan file that an earlier run wrote
PlanFileDate == "2024-12-31T00:00:00+00:00"

\* the issues of .linear_project.json with an identifier in ids, in file order
ProjectIssues(ids) ==
    LET listed == SelectSeq(IssueList, LAMBDA id : id \in ids)
    IN  [n \in DOMAIN listed |->
            [id |-> listed[n], category |-> category[listed[n]]]]

Init ==
    /\ OutsideIdle
    /\ category \in [IssueIds -> Categories]
    \* identifiers are numbered in plan order (a renaming of the issues)
    /\ \A a, b \in 1..NumIssues :
          a < b => CATEGORY_TIERS(category[IssueList[a]])
                      <= CATEGORY_TIERS(category[IssueList[b]])
    \* the issue list of this run may have lost identifiers since an earlier
    \* run built and saved the plan
    /\ issue_lookup \in {IssueIds \ gone : gone \in SUBSET IssueIds}
    /\ issue_lookup # {}
    /\ Cardinality(IssueIds \ issue_lookup) <= MaxStaleIds
    /\ state_type \in [IssueIds -> StateTypes]
    \* no tracker call is made for an identifier that is not in the issue list
    /\ \A id \in IssueIds \ issue_lookup : state_type[id] = "started"
    \* a tracker call that fails yields "unknown" (get_issue_status)
    /\ Cardinality({id \in IssueIds : state_type[id] = "unknown"})
          <= MaxTrackerFailures
    /\ max_workers \in MaxWorkersArgs
    \* .parallel_plan.json is absent, or it is the plan an earlier run built
    \* from the issue list of its day with the max_workers of its day
    /\ \/ /\ plan_file = << >>
          /\ project_dir \in BOOLEAN
       \/ /\ \E earlier \in 1..MaxWorkersInput :
                plan_file = save_plan(ParallelPlan(
                    BuildTiers(ProjectIssues(IssueIds), 1), earlier,
                    PlanFileDate))
          /\ project_dir = TRUE
    /\ plan = << >>
    /\ CoordinatorStart

\* ------------------------------------------------- the start of the run
\* mutant: the range the docstring of run_parallel_agent names (1-3)
max_workers_valid_docstring(n) == ~(n < 1 \/ n > 3)

\* line 312: `if max_workers < 1 or max_workers > 5: raise ValueError`
max_workers_valid(n) == ~(n < 1 \/ n > MAX_WORKERS_LIMIT)

\* lines 312-313
ValidateMaxWorkers ==
    /\ pc = "start"
    /\ pc' = IF max_workers_valid(max_workers) THEN "init" ELSE "rejected"
    /\ UNCHANGED << inputVars, progVars, loopVars, callVars, waveVars, gitVars,
                    envVars, mergeVars, histVars >>

\* lines 324-358: the project directory is made; the run returns when the
\* project cannot be initialized, has no issue list or is not a repository
LoadProject ==
    /\ pc = "init"
    /\ project_dir' = TRUE
    /\ \E ok \in BOOLEAN : pc' = IF ok THEN "plan" ELSE "returned"
    /\ UNCHANGED << category, state_type, max_workers, plan, issue_lookup,
                    outsideVars, progVars, loopVars, callVars, waveVars,
                    gitVars, envVars, mergeVars, histVars >>

\* mutant: the plan is built and saved whether or not a plan file exists
build_or_load_plan_rebuilds(file, issue_dicts, max_parallelism) ==
    [plan |-> build_plan(issue_dicts, max_parallelism),
     file |-> save_plan(build_plan(issue_dicts, max_parallelism))]

\* lines 361-368: the plan of the run and the plan file it leaves
build_or_load_plan(file, issue_dicts, max_parallelism) ==
    IF load_plan(file) = << >>
    THEN [plan |-> build_plan(issue_dicts, max_parallelism),
          file |-> save_plan(build_plan(issue_dicts, max_parallelism))]
    ELSE [plan |-> load_plan(file)[1], file |-> file]

\* phase 2
BuildOrLoadPlan ==
    /\ pc = "plan"
    /\ LET r == build_or_load_plan(plan_file, ProjectIssues(issue_lookup),
                                   max_workers)
       IN  /\ plan' = r.plan.tiers
           /\ plan_file' = r.file
    /\ pc' = "sync"
    /\ UNCHANGED << category, state_type, max_workers, issue_lookup,
                    project_dir, origin, issues, sched_plan, ready, loaded,
                    vcsVars, queueVars, addVars, statusVars, workerVars,
                    restartVars, progVars, loopVars, callVars, waveVars, gitVars, envVars,
                    mergeVars, histVars >>

DictPut(d, key, val) ==
    [x \in (DOMAIN d) \cup {key} |-> IF x = key THEN val ELSE d[x]]

\* the wave of the current iteration: tier_issues[wave_start:wave_start + mw]
Wave == SubSeqFrom(tier_issues, wave_start, mw)

\* ------------------------------------------------------------ state sync
\* run_parallel_agent, phase 2b up to the `remaining_count == 0` return
CheckStatuses ==
    /\ pc = "sync"
    /\ LET all_identifiers ==
               SelectSeq(IssueList, LAMBDA id : id \in issue_lookup)
           r == check_issue_statuses(all_identifiers, state_type)
           c == r.completed \cup r.cancelled
           remaining_count == total_issues(plan) - Cardinality(c)
       IN  /\ completed' = c
           /\ completed_issues' = c
           /\ pc' = IF remaining_count = 0 THEN "done" ELSE "tier_loop"
    /\ UNCHANGED << inputVars, failed_issues, requeued_issues, tiers_completed,
                    tier_completed_ids, tier_failed_ids, requeued, loopVars,
                    callVars, waveVars, gitVars, envVars, mergeVars, histVars >>

\* ------------------------------------------------------------- tier loop
\* the list comprehensions of lines 411-412
TierIssues(t, done) ==
    SelectSeq(SelectSeq(plan[t].issue_ids, LAMBDA id : id \notin done),
              LAMBDA id : id \in issue_lookup)

\* variant: the loop ends only when get_ready_issues has nothing
TierLoopExitWhenNothingReady ==
    /\ pc = "tier_loop"
    /\ \/ get_ready_issues(plan, completed).ready_ids = << >>
       \/ get_ready_issues(plan, completed).tier_pos = 0
    /\ pc' = "retry"
    /\ ri' = 0
    /\ UNCHANGED << inputVars, progVars, tier_iter, current_tier, caller,
                    callVars, waveVars, gitVars, envVars, mergeVars, histVars >>

\* `for tier in plan.tiers` is exhausted, or get_ready_issues has nothing
TierLoopExit ==
    /\ pc = "tier_loop"
    /\ \/ tier_iter >= Len(plan)
       \/ get_ready_issues(plan, completed).ready_ids = << >>
       \/ get_ready_issues(plan, completed).tier_pos = 0
    /\ pc' = "retry"
    /\ ri' = 0
    /\ UNCHANGED << inputVars, progVars, tier_iter, current_tier, caller,
                    callVars, waveVars, gitVars, envVars, mergeVars, histVars >>

\* one iteration of the loop up to the call of _run_tier_sequential or
\* _run_tier_parallel (or the `continue` of an empty tier_issues)
TierStart ==
    /\ pc = "tier_loop"
    /\ tier_iter < Len(plan)
    /\ LET r == get_ready_issues(plan, completed)
       IN  /\ r.ready_ids # << >>
           /\ r.tier_pos # 0
           /\ tier_iter' = tier_iter + 1
           /\ current_tier' = r.tier_pos
           /\ LET tis == TierIssues(r.tier_pos, completed)
              IN  IF tis = << >>
                  THEN /\ tiers_completed' = tiers_completed + 1
                       /\ UNCHANGED << pc, tier_completed_ids, tier_failed_ids,
                                       callVars, histVars >>
                  ELSE /\ pc' = "wave"
                       /\ tier_completed_ids' = {}
                       /\ tier_failed_ids' = {}
                       /\ tier_issues' = tis
                       /\ mw' = IF plan[r.tier_pos].sequential \/ Len(tis) = 1
                                THEN 1 ELSE max_workers
                       /\ wave_start' = 0
                       /\ all_results' = << >>
                       /\ executed' = Append(executed, plan[r.tier_pos].tier)
                       /\ attempt' = NoAttempt
                       /\ UNCHANGED << tiers_completed, spawned >>
    /\ caller' = "tier"
    /\ UNCHANGED << inputVars, completed, completed_issues, failed_issues,
                    requeued_issues, requeued, ri, waveVars, gitVars, envVars,
                    mergeVars >>

\* ------------------------------------------------------ _run_tier_parallel
\* head of `for wave_start in range(0, len(tier_issues), max_workers)`
WaveStart ==
    /\ pc = "wave"
    /\ wave_start < Len(tier_issues)
    /\ pc' = "setup"
    /\ i' = 0
    /\ spawn_tasks' = << >>
    /\ worker_results' = << >>
    /\ UNCHANGED << inputVars, progVars, loopVars, callVars, gitVars, envVars,
                    mergeVars, histVars >>

\* `return all_results`
TierReturn ==
    /\ pc = "wave"
    /\ wave_start >= Len(tier_issues)
    /\ pc' = IF caller = "tier" THEN "merge" ELSE "retry_merge"
    /\ mi' = 0
    /\ merge_results' = << >>
    /\ UNCHANGED << inputVars, progVars, loopVars, callVars, waveVars, gitVars,
                    envVars, merging, mr, histVars >>

\* create_worktree(project_dir, worktree_dir, branch) for position i of the
\* wave: an existing directory is removed, `git branch -D` deletes the branch
\* unless another worktree has it checked out, `git worktree add -b` then
\* succeeds or fails (it cannot succeed while the branch still exists)
CreateWorktree ==
    /\ pc = "setup"
    /\ i < Len(Wave)
    /\ LET issue_id == Wave[i + 1]
           worker_index == wave_start + i
           wt1 == [worktree EXCEPT ![worker_index] = NoIssue]
           held == \E w \in WorkerIndexes : wt1[w] = issue_id
           br1 == IF held THEN branches ELSE branches \ {issue_id}
       IN  \E success \in (IF held THEN {FALSE} ELSE BOOLEAN) :
              IF success
              THEN /\ worktree' = [wt1 EXCEPT ![worker_index] = issue_id]
                   /\ branches' = br1 \cup {issue_id}
                   /\ spawn_tasks' = Append(spawn_tasks,
                          [issue_id |-> issue_id, worker_index |-> worker_index])
                   /\ UNCHANGED << all_results, attempt >>
              ELSE /\ worktree' = wt1
                   /\ branches' = br1
                   /\ all_results' = ResultPut(all_results, issue_id, "error")
                   /\ attempt' = [attempt EXCEPT ![issue_id] = "no_worktree"]
                   /\ UNCHANGED spawn_tasks
    /\ i' = i + 1
    /\ UNCHANGED << inputVars, pc, progVars, loopVars, tier_issues, mw,
                    wave_start, worker_results, main_line, envVars, mergeVars,
                    executed, spawned >>

\* `if not spawn_tasks: continue`
NoSpawnTasks ==
    /\ pc = "setup"
    /\ i = Len(Wave)
    /\ spawn_tasks = << >>
    /\ wave_start' = wave_start + mw
    /\ pc' = "wave"
    /\ i' = 0
    /\ UNCHANGED << inputVars, progVars, loopVars, tier_issues, mw, all_results,
                    spawn_tasks, worker_results, gitVars, envVars, mergeVars,
                    histVars >>


\* what a worker process leaves in its result file when it exits: a
\* descriptor with status success or error (worker.py main), or nothing
\* when it dies before write_result
Descriptors == {"success", "error"}
ExitWrites == Descriptors \cup {"nothing"}

TaskIssue(j) == spawn_tasks[j].issue_id

\* asyncio.gather(*spawn_tasks, return_exceptions=True) starts every
\* _spawn_worker task; create_subprocess_exec (line 119) either raises, which
\* fills the task's slot with the exception, or starts the worker process
Gather ==
    /\ pc = "setup"
    /\ i = Len(Wave)
    /\ spawn_tasks # << >>
    /\ \E failed \in SUBSET (DOMAIN spawn_tasks) :
          LET started == (DOMAIN spawn_tasks) \ failed
          IN  /\ worker_results' = [j \in DOMAIN spawn_tasks |->
                     IF j \in failed THEN "exception" ELSE "pending"]
              /\ procs' = procs \cup
                     {[issue_id |-> TaskIssue(j),
                       worker_index |-> spawn_tasks[j].worker_index,
                       task |-> j] : j \in started}
              /\ spawned' = spawned \cup {TaskIssue(j) : j \in started}
              /\ attempt' = [id \in IssueIds |->
                     IF \E j \in failed : TaskIssue(j) = id THEN "spawn_failed"
                     ELSE IF \E j \in started : TaskIssue(j) = id THEN "running"
                     ELSE attempt[id]]
    /\ pc' = "gather"
    /\ UNCHANGED << inputVars, progVars, loopVars, callVars, i, spawn_tasks,
                    gitVars, result_file, raises, mergeVars, executed >>

\* a worker process exits; its _spawn_worker task, if it still waits for
\* the process, returns (issue_id, returncode)
WorkerExit(p) ==
    /\ p \in procs
    /\ \E w \in ExitWrites :
          /\ result_file' = IF w = "nothing" THEN result_file
                            ELSE [result_file EXCEPT ![p.issue_id] = w]
          /\ attempt' = IF p.task # 0
                        THEN [attempt EXCEPT ![p.issue_id] = w]
                        ELSE attempt
    /\ procs' = procs \ {p}
    /\ worker_results' = IF p.task # 0
                         THEN [worker_results EXCEPT ![p.task] = "returned"]
                         ELSE worker_results
    /\ UNCHANGED << inputVars, pc, progVars, loopVars, callVars, i,
                    spawn_tasks, gitVars, raises, mergeVars, executed,
                    spawned >>

\* the task raises while it relays the worker's output: readline (line 129)
\* raises ValueError on a line longer than the stream limit, decode (line 132)
\* raises on bytes that are not UTF-8.  The slot holds the exception and the
\* worker process goes on running, awaited by nobody
TaskRaises(p) ==
    /\ p \in procs
    /\ p.task # 0
    /\ raises < MaxTaskRaises
    /\ raises' = raises + 1
    /\ worker_results' = [worker_results EXCEPT ![p.task] = "exception"]
    /\ procs' = (procs \ {p}) \cup {[p EXCEPT !.task = 0]}
    /\ attempt' = [attempt EXCEPT ![p.issue_id] = "raised"]
    /\ UNCHANGED << inputVars, pc, progVars, loopVars, callVars, i,
                    spawn_tasks, gitVars, result_file, mergeVars, executed,
                    spawned >>

\* gather returns once every slot is filled
GatherReturns ==
    /\ pc = "gather"
    /\ \A j \in DOMAIN worker_results : worker_results[j] # "pending"
    /\ pc' = "collect"
    /\ i' = 0
    /\ UNCHANGED << inputVars, progVars, loopVars, callVars, spawn_tasks,
                    worker_results, gitVars, envVars, mergeVars, histVars >>

\* zip(wave, worker_results) stops at the shorter of the two
ZipLen == Min(Len(Wave), Len(worker_results))

\* one iteration of `for i, (issue, wr) in enumerate(zip(wave, worker_results))`
CollectResult ==
    /\ pc = "collect"
    /\ i < ZipLen
    /\ LET issue_id == Wave[i + 1]
           wr == worker_results[i + 1]
           worker_index == wave_start + i
           result == load_worker_result(result_file[issue_id])
       IN  /\ all_results' =
                 IF wr = "exception"
                 THEN ResultPut(all_results, issue_id, "error")
                 ELSE IF result # "None"
                      THEN ResultPut(all_results, issue_id, result)
                      ELSE ResultPut(all_results, issue_id, "error")
           \* remove_worktree(project_dir, worktree_dir)
           /\ worktree' = [worktree EXCEPT ![worker_index] = NoIssue]
    /\ i' = i + 1
    /\ UNCHANGED << inputVars, pc, progVars, loopVars, tier_issues, mw,
                    wave_start, spawn_tasks, worker_results, branches,
                    main_line, envVars, mergeVars, histVars >>

\* end of the collect loop: next wave (the wave's locals are dropped)
CollectDone ==
    /\ pc = "collect"
    /\ i >= ZipLen
    /\ wave_start' = wave_start + mw
    /\ pc' = "wave"
    /\ i' = 0
    /\ spawn_tasks' = << >>
    /\ worker_results' = << >>
    /\ UNCHANGED << inputVars, progVars, loopVars, tier_issues, mw,
                    all_results, gitVars, envVars, mergeVars, histVars >>


\* ------------------------------------------------------------ merge driver
\* merge_branch: rc is the exit code of `git merge --no-ff`, says_conflict
\* whether "conflict" occurs in its stdout or stderr (case-insensitive)
merge_branch(rc, says_conflict) ==
    IF rc = 0 THEN [success |-> TRUE, conflict |-> FALSE]
    ELSE IF says_conflict THEN [success |-> FALSE, conflict |-> TRUE]
    ELSE [success |-> FALSE, conflict |-> FALSE]

\* what `git merge` can do for the branch of an issue: a branch that does
\* not exist cannot be merged
GitMergeRuns(id) ==
    IF id \in branches
    THEN {[rc |-> 0, says_conflict |-> FALSE],
          [rc |-> 1, says_conflict |-> TRUE],
          [rc |-> 1, says_conflict |-> FALSE]}
    ELSE {[rc |-> 1, says_conflict |-> FALSE]}

\* delete_branch: `git branch -d` refuses a branch checked out in a worktree
delete_branch(id) ==
    IF \E w \in WorkerIndexes : worktree[w] = id
    THEN branches ELSE branches \ {id}

\* the locals of a finished loop iteration are dropped
DropLocals ==
    /\ tier_issues' = << >>
    /\ mw' = 1
    /\ wave_start' = 0
    /\ all_results' = << >>
    /\ merge_results' = << >>
    /\ mi' = 0
    /\ mr' = NoMerge

\* ------------------------------------------------- phase 4: merge (tiers)
\* mutant: every result is taken to the merge
is_success_any_result(result) == result.status \in {"success", "error"}

\* line 441: `if result.get("status") == "success"`
is_success(result) == result.status = "success"

\* `for issue_id, result in results.items()` with status success: the merge
\* command is started
MergeBegin ==
    /\ pc = "merge"
    /\ mi < Len(all_results)
    /\ is_success(all_results[mi + 1])
    /\ merging' = all_results[mi + 1].issue_id
    /\ pc' = "merging"
    /\ UNCHANGED << inputVars, progVars, loopVars, callVars, waveVars, gitVars,
                    envVars, merge_results, mi, mr, histVars >>

\* mutant: a conflicted merge is classified as failed
merge_outcome_conflict_fails(m) ==
    IF m.success THEN "completed" ELSE "failed"

\* lines 445-459: where the outcome of the merge puts the issue
merge_outcome(m) ==
    IF m.success THEN "completed"
    ELSE IF m.conflict THEN "requeued"
    ELSE "failed"

\* the merge command has ended: lines 443-459
MergeFinish ==
    /\ pc = "merging"
    /\ \E g \in GitMergeRuns(merging) :
          LET m == merge_branch(g.rc, g.says_conflict)
              o == merge_outcome(m)
          IN  /\ mr' = m
              /\ merge_results' = DictPut(merge_results, merging, o = "completed")
              /\ completed' =
                    IF o = "completed" THEN completed \cup {merging} ELSE completed
              /\ completed_issues' =
                    IF o = "completed" THEN completed_issues \cup {merging}
                    ELSE completed_issues
              /\ tier_completed_ids' =
                    IF o = "completed" THEN tier_completed_ids \cup {merging}
                    ELSE tier_completed_ids
              /\ branches' =
                    IF o = "completed" THEN delete_branch(merging) ELSE branches
              /\ main_line' = IF m.success THEN main_line + 1 ELSE main_line
              /\ requeued_issues' =
                    IF o = "requeued" THEN requeued_issues \cup {merging}
                    ELSE requeued_issues
              /\ requeued' =
                    IF o = "requeued" THEN Append(requeued, merging) ELSE requeued
              /\ failed_issues' =
                    IF o = "failed" THEN failed_issues \cup {merging}
                    ELSE failed_issues
              /\ tier_failed_ids' =
                    IF o = "failed" THEN tier_failed_ids \cup {merging}
                    ELSE tier_failed_ids
    /\ mi' = mi + 1
    /\ merging' = NoIssue
    /\ pc' = "merge"
    /\ UNCHANGED << inputVars, tiers_completed, loopVars, callVars, waveVars,
                    worktree, envVars, histVars >>

\* the `else` of line 460: the worker failed
WorkerFailed ==
    /\ pc = "merge"
    /\ mi < Len(all_results)
    /\ ~is_success(all_results[mi + 1])
    /\ failed_issues' = failed_issues \cup {all_results[mi + 1].issue_id}
    /\ tier_failed_ids' = tier_failed_ids \cup {all_results[mi + 1].issue_id}
    /\ mi' = mi + 1
    /\ UNCHANGED << inputVars, pc, completed, completed_issues,
                    requeued_issues, tiers_completed, tier_completed_ids,
                    requeued, loopVars, callVars, waveVars, gitVars, envVars,
                    merge_results, merging, mr, histVars >>

\* end of the merge loop: `progress.tiers_completed += 1`, next iteration
TierDone ==
    /\ pc = "merge"
    /\ mi >= Len(all_results)
    /\ tiers_completed' = tiers_completed + 1
    /\ pc' = "tier_loop"
    /\ DropLocals
    /\ UNCHANGED << inputVars, completed, completed_issues, failed_issues,
                    requeued_issues, tier_completed_ids, tier_failed_ids,
                    requeued, loopVars, waveVars, gitVars, envVars, merging,
                    histVars >>

\* ------------------------------------------- phase 5: sequential retry
\* `for issue in requeued`: _run_tier_sequential([issue], ...)
RetryNext ==
    /\ pc = "retry"
    /\ ri < Len(requeued)
    /\ caller' = "retry"
    /\ tier_issues' = << requeued[ri + 1] >>
    /\ mw' = 1
    /\ wave_start' = 0
    /\ all_results' = << >>
    /\ attempt' = NoAttempt
    /\ pc' = "wave"
    /\ UNCHANGED << inputVars, progVars, tier_iter, current_tier, ri, waveVars,
                    gitVars, envVars, mergeVars, executed, spawned >>

\* lines 485-486: the result of the retried issue is not success
RetryNoMerge ==
    /\ pc = "retry_merge"
    /\ ResultStatus(all_results, requeued[ri + 1]) # "success"
    /\ ri' = ri + 1
    /\ pc' = "retry"
    /\ DropLocals
    /\ UNCHANGED << inputVars, progVars, tier_iter, current_tier, caller,
                    waveVars, gitVars, envVars, merging, histVars >>

\* lines 486-488: the merge command of the retried issue is started
RetryMergeBegin ==
    /\ pc = "retry_merge"
    /\ ResultStatus(all_results, requeued[ri + 1]) = "success"
    /\ merging' = requeued[ri + 1]
    /\ pc' = "retry_merging"
    /\ UNCHANGED << inputVars, progVars, loopVars, callVars, waveVars, gitVars,
                    envVars, merge_results, mi, mr, histVars >>

\* lines 489-493
RetryMergeFinish ==
    /\ pc = "retry_merging"
    /\ \E g \in GitMergeRuns(merging) :
          LET m == merge_branch(g.rc, g.says_conflict)
          IN  IF m.success
              THEN /\ completed' = completed \cup {merging}
                   /\ completed_issues' = completed_issues \cup {merging}
                   /\ requeued_issues' = requeued_issues \ {merging}
                   /\ branches' = delete_branch(merging)
                   /\ main_line' = main_line + 1
              ELSE UNCHANGED << completed, completed_issues, requeued_issues,
                                branches, main_line >>
    /\ merging' = NoIssue
    /\ ri' = ri + 1
    /\ pc' = "retry"
    /\ DropLocals
    /\ UNCHANGED << inputVars, failed_issues, tiers_completed,
                    tier_completed_ids, tier_failed_ids, requeued, tier_iter,
                    current_tier, caller, waveVars, worktree, envVars,
                    histVars >>

\* the retry loop is over (or `requeued` is empty)
RetryExit ==
    /\ pc = "retry"
    /\ ri >= Len(requeued)
    /\ pc' = "cleanup"
    /\ UNCHANGED << inputVars, progVars, loopVars, callVars, waveVars, gitVars,
                    envVars, mergeVars, histVars >>

\* phase 6: cleanup_worktrees removes every worktree and the .workers
\* directory, the result files with it; then the final summary
Cleanup ==
    /\ pc = "cleanup"
    /\ worktree' = [w \in WorkerIndexes |-> NoIssue]
    /\ result_file' = [id \in IssueIds |-> "absent"]
    /\ pc' = "done"
    /\ UNCHANGED << inputVars, progVars, loopVars, callVars, waveVars,
                    branches, main_line, procs, raises, mergeVars, histVars >>

Next ==
    \/ ValidateMaxWorkers
    \/ LoadProject
    \/ BuildOrLoadPlan
    \/ CheckStatuses
    \/ TierLoopExit
    \/ TierStart
    \/ WaveStart
    \/ TierReturn
    \/ CreateWorktree
    \/ NoSpawnTasks
    \/ Gather
    \/ \E p \in procs : WorkerExit(p)
    \/ \E p \in procs : TaskRaises(p)
    \/ GatherReturns
    \/ CollectResult
    \/ CollectDone
    \/ MergeBegin
    \/ MergeFinish
    \/ WorkerFailed
    \/ TierDone
    \/ RetryNext
    \/ RetryNoMerge
    \/ RetryMergeBegin
    \/ RetryMergeFinish
    \/ RetryExit
    \/ Cleanup

Spec == Init /\ [][Next]_vars

\* the steps of the coordinator itself: every disjunct of Next but the
\* worker processes' own steps
CoordinatorStep ==
    \/ ValidateMaxWorkers
    \/ LoadProject
    \/ BuildOrLoadPlan
    \/ CheckStatuses
    \/ TierLoopExit
    \/ TierStart
    \/ WaveStart
    \/ TierReturn
    \/ CreateWorktree
    \/ NoSpawnTasks
    \/ Gather
    \/ GatherReturns
    \/ CollectResult
    \/ CollectDone
    \/ MergeBegin
    \/ MergeFinish
    \/ WorkerFailed
    \/ TierDone
    \/ RetryNext
    \/ RetryNoMerge
    \/ RetryMergeBegin
    \/ RetryMergeFinish
    \/ RetryExit
    \/ Cleanup

\* A coordinator run in which every worker process terminates and every VCS
\* command returns: the event loop goes on with the coordinator whenever it
\* can take a step (the git commands are part of its steps), and a worker
\* process that is running exits.  A relay task need not raise.
FairSpec ==
    /\ Spec
    /\ WF_vars(CoordinatorStep)
    /\ WF_vars(\E p \in procs : WorkerExit(p))


\* ================================================ scheduler.py on its own
\* One behaviour of SchedSpec is a caller of scheduler.py (the tests, the
\* coordinator's phase 2) that builds or constructs a plan and then asks
\* for the ready issues, or saves the plan and loads it again.
coordVars == << category, state_type, max_workers, plan, issue_lookup,
                project_dir, pc,
                progVars, loopVars, callVars, waveVars, gitVars, envVars,
                mergeVars, histVars >>

\* no coordinator run takes place
CoordinatorIdle ==
    /\ category = [id \in IssueIds |-> "setup"]
    /\ state_type = [id \in IssueIds |-> "completed"]
    /\ max_workers = 1
    /\ plan = << >>
    /\ issue_lookup = {}
    /\ project_dir = FALSE
    /\ CoordinatorStart

SeqsUpTo(S, n) == UNION {[1..k -> S] : k \in 0..n}

\* what a caller of scheduler.py leaves alone
schedFrame == << coordVars, vcsVars, queueVars, addVars, statusVars, workerVars, restartVars >>

SchedIds == {"T-1", "T-2"}
\* category strings of the issues: the keys of CATEGORY_TIERS, a string that
\* is no key, and a key in another case
IssueCategories ==
    {"setup", "backend", "frontend", "a2ui-catalog", "feature", "styling",
     "testing", "integration", "docs", "Setup"}
\* issue dicts, with and without the key "category"
IssueDicts ==
    {[id |-> x] : x \in SchedIds}
        \cup {[id |-> x, category |-> c] : x \in SchedIds, c \in IssueCategories}
IssueLists == SeqsUpTo(IssueDicts, MaxListLen)

\* plans constructed directly with ExecutionTier(...) and ParallelPlan(...),
\* as from_dict and the tests do: any tier numbers in any order, tiers that
\* share identifiers, empty tiers
ConstructedTiers ==
    {[tier |-> t, issue_ids |-> ids, description |-> d.description,
      sequential |-> d.sequential] :
        t \in {1, 2},
        ids \in SeqsUpTo(SchedIds, MaxListLen),
        d \in {[description |-> TIER_DESCRIPTIONS(1), sequential |-> TRUE],
                [description |-> "test", sequential |-> FALSE]}}
ConstructedPlans ==
    {ParallelPlan(ts, m.max_parallelism, m.created_at) :
        ts \in SeqsUpTo(ConstructedTiers, MaxListLen),
        m \in {[max_parallelism |-> 1, created_at |-> Now],
                [max_parallelism |-> 3, created_at |-> ""]}}

SchedInit ==
    /\ CoordinatorIdle
    /\ RestartIdle
    /\ WorkerIdle
    /\ StatusIdle
    /\ AddIdle
    /\ VcsIdle
    /\ QueueIdle
    /\ ready = << >>
    /\ plan_file = << >>
    /\ loaded = << >>
    /\ \/ /\ origin = "issues"
          /\ issues \in IssueLists
          /\ sched_plan = << >>
       \/ /\ origin = "constructed"
          /\ issues = << >>
          /\ sched_plan \in {<< p >> : p \in ConstructedPlans}

\* plan = build_plan(issues, max_parallelism=...)
BuildPlan ==
    /\ origin = "issues"
    /\ \E max_parallelism \in 1..MaxWorkersInput :
          sched_plan' = << build_plan(issues, max_parallelism) >>
    /\ origin' = "build_plan"
    /\ UNCHANGED << schedFrame, issues, ready, plan_file, loaded >>

\* ready, tier = get_ready_issues(plan, completed)
GetReady ==
    /\ sched_plan # << >>
    /\ ready = << >>
    /\ plan_file = << >>
    /\ loaded = << >>
    /\ \E C \in SUBSET SchedIds :
          ready' = << [completed |-> C,
                       ret |-> get_ready_issues(sched_plan[1].tiers, C)] >>
    /\ UNCHANGED << schedFrame, origin, issues, sched_plan, plan_file, loaded >>

SavePlan ==
    /\ sched_plan # << >>
    /\ ready = << >>
    /\ plan_file = << >>
    /\ loaded = << >>
    /\ plan_file' = save_plan(sched_plan[1])
    /\ UNCHANGED << schedFrame, origin, issues, sched_plan, ready, loaded >>

LoadPlan ==
    /\ ready = << >>
    /\ loaded = << >>
    /\ loaded' = << load_plan(plan_file) >>
    /\ UNCHANGED << schedFrame, origin, issues, sched_plan, ready, plan_file >>

SchedNext ==
    \/ BuildPlan
    \/ GetReady
    \/ SavePlan
    \/ LoadPlan

SchedSpec == SchedInit /\ [][SchedNext]_vars


\* ================================================ merge.py on its own
\* One behaviour of VcsSpec is one call of merge_branch: the `git merge`
\* process is the environment, its exit code and the content of its two
\* streams are chosen in VcsInit.
vcsFrame == << coordVars, schedVars, queueVars, addVars, statusVars, workerVars, restartVars >>

\* A stream is a sequence of words, " " standing for white space; the empty
\* stream is << >>.
Words == {" ", "fatal:", "conflict", "CONFLICT"}
Streams == SeqsUpTo(Words, MaxStreamLen)
GitReturnCodes == {0, 1, 128, -15}

\* str.strip()
RECURSIVE strip(_)
strip(text) ==
    IF text = << >> THEN << >>
    ELSE IF Head(text) = " " THEN strip(Tail(text))
    ELSE IF text[Len(text)] = " " THEN strip(SubSeq(text, 1, Len(text) - 1))
    ELSE text

\* str.lower() of a stream
lower_text(text) == [k \in 1..Len(text) |-> lower(text[k])]

\* "conflict" in text
has_conflict(text) == \E k \in 1..Len(text) : text[k] = "conflict"

\* _run_git: (returncode, stdout, stderr) of the finished process
run_git(proc) ==
    [rc |-> proc.returncode,
     stdout |-> strip(proc.stdout),
     stderr |-> strip(proc.stderr)]

\* the dataclass MergeResult; error defaults to the empty string
MergeResult(success, conflict, error) ==
    [success |-> success, conflict |-> conflict, error |-> error]

\* the MergeResult merge_branch returns for a finished `git merge`
merge_branch_returns(rc, stdout, stderr) ==
    LET says_conflict ==
            has_conflict(lower_text(stderr)) \/ has_conflict(lower_text(stdout))
        m == merge_branch(rc, says_conflict)
    IN  IF m.success THEN MergeResult(TRUE, FALSE, << >>)
        ELSE IF m.conflict THEN MergeResult(FALSE, TRUE, << >>)
        ELSE MergeResult(FALSE, FALSE, stderr)

VcsInit ==
    /\ CoordinatorIdle
    /\ RestartIdle
    /\ WorkerIdle
    /\ StatusIdle
    /\ AddIdle
    /\ SchedIdle
    /\ QueueIdle
    /\ git_proc \in [returncode : GitReturnCodes, stdout : Streams,
                     stderr : Streams]
    /\ git_calls = << >>
    /\ merge_result = << >>

\* result = await merge_branch(project_dir, branch)
MergeBranch ==
    /\ merge_result = << >>
    /\ LET out == run_git(git_proc)
       IN  /\ merge_result' =
                << merge_branch_returns(out.rc, out.stdout, out.stderr) >>
           /\ git_calls' = IF out.rc = 0 THEN << "merge" >>
                           ELSE << "merge", "merge --abort" >>
    /\ UNCHANGED << vcsFrame, git_proc >>

VcsNext == MergeBranch

VcsSpec == VcsInit /\ [][VcsNext]_vars


\* ============================================ queue_runner.py: `start`
\* One behaviour of QueueSpec is one invocation of `start` (cmd_start) on a
\* queue document written by earlier `add` and `start` commands.  The job's
\* subprocess, the file copies and the user's interrupt signal are the
\* environment.  The signal is sent at most once, while a job is being run
\* (inside _run_job): Python raises KeyboardInterrupt at whatever statement
\* is executing then.  The restore in the finally block renames or removes
\* a file this process has just written, and does not fail.
queueFrame == << coordVars, schedVars, vcsVars, addVars, statusVars, workerVars, restartVars >>

APP_SPEC_PATH == "prompts/app_spec.txt"
\* spec paths of jobs: the canonical path itself, a spec file that exists,
\* a path where no file is
SpecPaths == {APP_SPEC_PATH, "specs/b.txt", "specs/missing.txt"}
JobStatus == {"pending", "running", "completed", "failed", "interrupted"}
JobIds == << "job-1", "job-2", "job-3", "job-4", "job-5" >>
ExitCodes == {0, 1, 130}

\* spec_source.exists()
exists(spec_source) ==
    IF spec_source = APP_SPEC_PATH THEN app_spec # << >>
    ELSE spec_source = "specs/b.txt"

\* the bytes of a job's spec file
spec_bytes(spec_source) ==
    IF spec_source = APP_SPEC_PATH THEN app_spec ELSE << "B" >>

QueueJob(id, spec_path, status) ==
    [id |-> id, spec_path |-> spec_path, status |-> status]

\* queue documents: identifiers are unique (cmd_add), every status can have
\* been left by an earlier `start`
QueueDocs ==
    UNION {{[k \in 1..n |-> QueueJob(JobIds[k], sp[k], st[k])] :
                sp \in [1..n -> SpecPaths], st \in [1..n -> JobStatus]} :
           n \in 0..MaxJobs}

\* variants of _get_processable_jobs: last job first; stale running jobs
\* left out
get_processable_jobs_reversed(jobs) ==
    LET sel == SelectSeq([k \in 1..Len(jobs) |-> k],
                         LAMBDA k : jobs[k].status \in
                                        {"pending", "interrupted", "running"})
    IN  [p \in 1..Len(sel) |-> sel[Len(sel) + 1 - p]]
get_processable_jobs_not_running(jobs) ==
    SelectSeq([k \in 1..Len(jobs) |-> k],
              LAMBDA k : jobs[k].status \in {"pending", "interrupted"})

\* _get_processable_jobs, as positions in state.jobs
get_processable_jobs(jobs) ==
    SelectSeq([k \in 1..Len(jobs) |-> k],
              LAMBDA k : jobs[k].status \in {"pending", "interrupted", "running"})

\* status for a return code of the subprocess
status_of_returncode(returncode) ==
    IF returncode = 0 THEN "completed"
    ELSE IF returncode = 130 THEN "interrupted"
    ELSE "failed"

\* cmd_start leaves its loop only in `except KeyboardInterrupt`
loop_breaks_after_failure(exc, job_status) ==
    exc = "KeyboardInterrupt" \/ job_status = "failed"
loop_breaks(exc, job_status) == exc = "KeyboardInterrupt"

NoLog ==
    [ran |-> FALSE, before |-> << >>, missing |-> FALSE, rc |-> << >>,
     exc |-> FALSE, ki |-> FALSE, child |-> "none"]

\* the loop variable `job`, as a position in state.jobs
job == processable[q_pos]

QueueInit ==
    /\ CoordinatorIdle
    /\ RestartIdle
    /\ WorkerIdle
    /\ StatusIdle
    /\ AddIdle
    /\ SchedIdle
    /\ VcsIdle
    /\ queue_file \in QueueDocs
    /\ app_spec \in {<< >>, << "A" >>}
    /\ backup_file = << >>
    /\ dry_run \in BOOLEAN
    /\ q_pc = "start"
    /\ state_jobs = << >>
    /\ processable = << >>
    /\ q_pos = 0
    /\ spec_swapped = FALSE
    /\ raised = "none"
    /\ interrupted = FALSE
    /\ exit_status = << >>
    /\ ki_arrived = FALSE
    /\ job_log = << >>

\* cmd_start up to its loop
CmdStart ==
    /\ q_pc = "start"
    /\ state_jobs' = queue_file
    /\ processable' = get_processable_jobs(queue_file)
    /\ job_log' = [k \in 1..Len(queue_file) |-> NoLog]
    /\ IF processable' = << >>
       THEN /\ q_pc' = "done"
            /\ exit_status' = << 0 >>
            /\ q_pos' = 0
       ELSE /\ q_pc' = "enter"
            /\ q_pos' = 1
            /\ UNCHANGED exit_status
    /\ UNCHANGED << queueFrame, queue_file, app_spec, backup_file, dry_run,
                    spec_swapped, raised, interrupted, ki_arrived >>

\* _run_job before its try statement
RunJobEnter ==
    /\ q_pc = "enter"
    /\ LET spec_source == state_jobs[job].spec_path
       IN  /\ job_log' = [job_log EXCEPT ![job].ran = TRUE,
                                         ![job].before = app_spec,
                                         ![job].missing = ~exists(spec_source)]
           /\ IF ~exists(spec_source)
              THEN /\ state_jobs' = [state_jobs EXCEPT ![job].status = "failed"]
                   /\ q_pc' = "save"
              ELSE IF dry_run
              THEN /\ q_pc' = "save"
                   /\ UNCHANGED state_jobs
              ELSE /\ q_pc' = "swap"
                   /\ UNCHANGED state_jobs
    /\ spec_swapped' = FALSE
    /\ UNCHANGED << queueFrame, queue_file, app_spec, backup_file, dry_run,
                    processable, q_pos, raised, interrupted, exit_status,
                    ki_arrived >>

\* the handler `except Exception` of _run_job
ExceptException ==
    /\ state_jobs' = [state_jobs EXCEPT ![job].status = "failed"]
    /\ job_log' = [job_log EXCEPT ![job].exc = TRUE]
    /\ q_pc' = "finally"

\* if spec_source.resolve() != APP_SPEC_PATH.resolve(): / if APP_SPEC_PATH.exists():
SwapTest ==
    /\ q_pc = "swap"
    /\ q_pc' = IF state_jobs[job].spec_path = APP_SPEC_PATH THEN "mark"
               ELSE IF app_spec # << >> THEN "backup"
               ELSE "copy"
    /\ UNCHANGED << queueFrame, queue_file, app_spec, backup_file, dry_run,
                    state_jobs, processable, q_pos, spec_swapped, raised,
                    interrupted, exit_status, ki_arrived, job_log >>

\* shutil.copy2(APP_SPEC_PATH, backup_path): it returns, or raises with the
\* destination written or not
BackupSpec ==
    /\ q_pc = "backup"
    /\ \/ /\ backup_file' = app_spec
          /\ q_pc' = "copy"
          /\ UNCHANGED << state_jobs, job_log >>
       \/ /\ backup_file' \in {backup_file, app_spec}
          /\ ExceptException
    /\ UNCHANGED << queueFrame, queue_file, app_spec, dry_run, processable,
                    q_pos, spec_swapped, raised, interrupted, exit_status,
                    ki_arrived >>

\* shutil.copy2(spec_source, APP_SPEC_PATH): it returns, or raises with the
\* destination written or not
CopySpec ==
    /\ q_pc = "copy"
    /\ \/ /\ app_spec' = spec_bytes(state_jobs[job].spec_path)
          /\ q_pc' = "flag"
          /\ UNCHANGED << state_jobs, job_log >>
       \/ /\ app_spec' \in {app_spec, spec_bytes(state_jobs[job].spec_path)}
          /\ ExceptException
    /\ UNCHANGED << queueFrame, queue_file, backup_file, dry_run, processable,
                    q_pos, spec_swapped, raised, interrupted, exit_status,
                    ki_arrived >>

\* spec_swapped = True
SetSwapped ==
    /\ q_pc = "flag"
    /\ spec_swapped' = TRUE
    /\ q_pc' = "mark"
    /\ UNCHANGED << queueFrame, queue_file, app_spec, backup_file, dry_run,
                    state_jobs, processable, q_pos, raised, interrupted,
                    exit_status, ki_arrived, job_log >>

\* job.status = JobStatus.running
MarkRunning ==
    /\ q_pc = "mark"
    /\ state_jobs' = [state_jobs EXCEPT ![job].status = "running"]
    /\ q_pc' = "run"
    /\ UNCHANGED << queueFrame, queue_file, app_spec, backup_file, dry_run,
                    processable, q_pos, spec_swapped, raised, interrupted,
                    exit_status, ki_arrived, job_log >>

\* subprocess.run(...) starts the child, or raises (the program cannot be
\* executed)
SubprocessStart ==
    /\ q_pc = "run"
    /\ \/ /\ q_pc' = "wait"
          /\ job_log' = [job_log EXCEPT ![job].child = "running"]
          /\ UNCHANGED state_jobs
       \/ ExceptException
    /\ UNCHANGED << queueFrame, queue_file, app_spec, backup_file, dry_run,
                    processable, q_pos, spec_swapped, raised, interrupted,
                    exit_status, ki_arrived >>

\* the child exits; job.status from result.returncode
SubprocessExit ==
    /\ q_pc = "wait"
    /\ \E returncode \in ExitCodes :
          /\ state_jobs' = [state_jobs EXCEPT
                               ![job].status = status_of_returncode(returncode)]
          /\ job_log' = [job_log EXCEPT ![job].rc = << returncode >>,
                                        ![job].child = "exited"]
    /\ q_pc' = "finally"
    /\ UNCHANGED << queueFrame, queue_file, app_spec, backup_file, dry_run,
                    processable, q_pos, spec_swapped, raised, interrupted,
                    exit_status, ki_arrived >>

\* the finally block of _run_job
RestoreSpec ==
    /\ q_pc = "finally"
    /\ IF spec_swapped /\ backup_file # << >>
       THEN /\ app_spec' = backup_file
            /\ backup_file' = << >>
       ELSE IF spec_swapped
       THEN /\ app_spec' = << >>
            /\ UNCHANGED backup_file
       ELSE UNCHANGED << app_spec, backup_file >>
    /\ q_pc' = "save"
    /\ UNCHANGED << queueFrame, queue_file, dry_run, state_jobs, processable,
                    q_pos, spec_swapped, raised, interrupted, exit_status,
                    ki_arrived, job_log >>

\* the user's signal arrives while _run_job executes: KeyboardInterrupt is
\* raised at the statement q_pc stands before.  Inside the try statement
\* `except KeyboardInterrupt` marks the job and re-raises through the finally
\* block; before the try statement and in the finally block nothing catches
\* it and it leaves _run_job at once.  A child that is running is killed by
\* subprocess.run.
KeyboardInterrupt ==
    /\ ~ki_arrived
    /\ q_pc \in {"enter", "swap", "backup", "copy", "flag", "mark", "run",
                 "wait", "finally"}
    /\ ki_arrived' = TRUE
    /\ raised' = "KeyboardInterrupt"
    /\ IF q_pc = "enter"
       THEN /\ job_log' = [job_log EXCEPT ![job].ran = TRUE,
                                          ![job].before = app_spec,
                                          ![job].ki = TRUE]
            /\ q_pc' = "save"
            /\ UNCHANGED state_jobs
       ELSE IF q_pc = "finally"
       THEN /\ job_log' = [job_log EXCEPT ![job].ki = TRUE]
            /\ q_pc' = "save"
            /\ UNCHANGED state_jobs
       ELSE /\ job_log' = [job_log EXCEPT
                               ![job].ki = TRUE,
                               ![job].child = IF q_pc = "wait" THEN "killed"
                                              ELSE @]
            /\ state_jobs' = [state_jobs EXCEPT ![job].status = "interrupted"]
            /\ q_pc' = "finally"
    /\ UNCHANGED << queueFrame, queue_file, app_spec, backup_file, dry_run,
                    processable, q_pos, spec_swapped, interrupted,
                    exit_status >>

\* cmd_start after _run_job has returned or raised: the except and finally
\* clauses of the loop body, then the next iteration or the return
SaveAfterJob ==
    /\ q_pc = "save"
    /\ queue_file' = IF dry_run THEN queue_file ELSE state_jobs
    /\ IF loop_breaks(raised, state_jobs[job].status)
       THEN /\ interrupted' = (raised = "KeyboardInterrupt")
            /\ q_pc' = "done"
            /\ exit_status' = << IF interrupted' THEN 130 ELSE 0 >>
            /\ UNCHANGED q_pos
       ELSE IF q_pos < Len(processable)
       THEN /\ q_pos' = q_pos + 1
            /\ q_pc' = "enter"
            /\ UNCHANGED << interrupted, exit_status >>
       ELSE /\ q_pc' = "done"
            /\ exit_status' = << IF interrupted THEN 130 ELSE 0 >>
            /\ UNCHANGED << q_pos, interrupted >>
    /\ raised' = "none"
    /\ UNCHANGED << queueFrame, app_spec, backup_file, dry_run, state_jobs,
                    processable, spec_swapped, ki_arrived, job_log >>

QueueNext ==
    \/ CmdStart
    \/ RunJobEnter
    \/ SwapTest
    \/ BackupSpec
    \/ CopySpec
    \/ SetSwapped
    \/ MarkRunning
    \/ SubprocessStart
    \/ SubprocessExit
    \/ RestoreSpec
    \/ KeyboardInterrupt
    \/ SaveAfterJob

QueueSpec == QueueInit /\ [][QueueNext]_vars


\* ============================================== queue_runner.py: `add`
\* One behaviour of AddSpec is a sequence of `add` commands (cmd_add), one
\* after the other, on a queue document left by earlier commands.
addFrame == << coordVars, schedVars, vcsVars, statusVars, workerVars, restartVars >>

\* values of --id
AddIds == {JobIds[k] : k \in DOMAIN JobIds}

\* existing_ids = {job.id for job in state.jobs}
existing_ids_of_pending(jobs) ==
    {jobs[k].id : k \in {x \in 1..Len(jobs) : jobs[x].status = "pending"}}
existing_ids(jobs) == {jobs[k].id : k \in 1..Len(jobs)}

AddInit ==
    /\ CoordinatorIdle
    /\ RestartIdle
    /\ WorkerIdle
    /\ StatusIdle
    /\ SchedIdle
    /\ VcsIdle
    /\ queue_file \in QueueDocs
    /\ app_spec \in {<< >>, << "A" >>}
    /\ backup_file = << >>
    /\ dry_run = FALSE
    /\ q_pc = "idle"
    /\ state_jobs = << >>
    /\ processable = << >>
    /\ q_pos = 0
    /\ spec_swapped = FALSE
    /\ raised = "none"
    /\ interrupted = FALSE
    /\ exit_status = << >>
    /\ ki_arrived = FALSE
    /\ job_log = << >>
    /\ add_args = << >>

\* cmd_add; the queue takes at most MaxJobs + 1 jobs
CmdAdd ==
    \E id \in AddIds, spec_path \in SpecPaths :
        /\ add_args' = << [id |-> id, spec_path |-> spec_path] >>
        /\ IF ~exists(spec_path)
           THEN /\ exit_status' = << 1 >>
                /\ UNCHANGED queue_file
           ELSE IF id \in existing_ids(queue_file)
           THEN /\ exit_status' = << 1 >>
                /\ UNCHANGED queue_file
           ELSE /\ Len(queue_file) <= MaxJobs
                /\ queue_file' =
                      Append(queue_file, QueueJob(id, spec_path, "pending"))
                /\ exit_status' = << 0 >>
        /\ UNCHANGED << addFrame, app_spec, backup_file, dry_run, q_pc,
                        state_jobs, processable, q_pos, spec_swapped, raised,
                        interrupted, ki_arrived, job_log >>

AddNext == CmdAdd

AddSpec == AddInit /\ [][AddNext]_vars


\* ================================ queue_runner.py: `add` during `start`
\* One behaviour of QueueAddSpec is one invocation of `start` and, in another
\* process, at most one `add` command that runs between the load_queue() of
\* cmd_start and its last save.  The two processes share the queue document
\* only; cmd_add reads and writes it in one step here (the window between its
\* load and its save is left out).
AddDuringStart ==
    /\ q_pc \in {"enter", "swap", "backup", "copy", "flag", "mark", "run",
                 "wait", "finally", "save"}
    /\ add_args = << >>
    /\ \E id \in AddIds, spec_path \in SpecPaths :
          IF ~exists(spec_path) \/ id \in existing_ids(queue_file)
          THEN /\ add_args' = << [id |-> id, spec_path |-> spec_path,
                                  accepted |-> FALSE] >>
               /\ UNCHANGED queue_file
          ELSE /\ Len(queue_file) <= MaxJobs
               /\ add_args' = << [id |-> id, spec_path |-> spec_path,
                                  accepted |-> TRUE] >>
               /\ queue_file' =
                     Append(queue_file, QueueJob(id, spec_path, "pending"))
    /\ UNCHANGED << addFrame, app_spec, backup_file, dry_run, q_pc,
                    state_jobs, processable, q_pos, spec_swapped, raised,
                    interrupted, exit_status, ki_arrived, job_log >>

QueueAddNext ==
    \/ QueueNext
    \/ AddDuringStart

QueueAddSpec == QueueInit /\ [][QueueAddNext]_vars


\* ======================== queue_runner.py: `start` killed, then run again
\* One behaviour of QueueRestartSpec is an invocation of `start` whose
\* process may be killed (SIGKILL: no except or finally clause runs) while
\* subprocess.run waits for a job's child, followed by a second invocation
\* of `start` on the files the first one left.
restartFrame == << coordVars, schedVars, vcsVars, addVars, statusVars,
                   workerVars >>

QueueRestartInit ==
    /\ CoordinatorIdle
    /\ WorkerIdle
    /\ StatusIdle
    /\ AddIdle
    /\ SchedIdle
    /\ VcsIdle
    /\ queue_file \in QueueDocs
    /\ app_spec \in {<< >>, << "A" >>}
    /\ backup_file = << >>
    /\ dry_run \in BOOLEAN
    /\ q_pc = "start"
    /\ state_jobs = << >>
    /\ processable = << >>
    /\ q_pos = 0
    /\ spec_swapped = FALSE
    /\ raised = "none"
    /\ interrupted = FALSE
    /\ exit_status = << >>
    /\ ki_arrived = FALSE
    /\ job_log = << >>
    /\ killed = FALSE
    /\ spec_before = app_spec

\* the process of `start` is killed inside subprocess.run (lines 174-177):
\* its memory is gone, the files stay as they are
KillStart ==
    /\ q_pc = "wait"
    /\ ~killed
    /\ killed' = TRUE
    /\ q_pc' = "killed"
    /\ UNCHANGED << restartFrame, spec_before, queue_file, app_spec,
                    backup_file, dry_run, state_jobs, processable, q_pos,
                    spec_swapped, raised, interrupted, exit_status,
                    ki_arrived, job_log >>

\* `start` is invoked again: a new process, with new locals
StartAgain ==
    /\ q_pc = "killed"
    /\ q_pc' = "start"
    /\ state_jobs' = << >>
    /\ processable' = << >>
    /\ q_pos' = 0
    /\ spec_swapped' = FALSE
    /\ raised' = "none"
    /\ interrupted' = FALSE
    /\ exit_status' = << >>
    /\ job_log' = << >>
    /\ UNCHANGED << restartFrame, killed, spec_before, queue_file, app_spec,
                    backup_file, dry_run, ki_arrived >>

QueueRestartNext ==
    \/ QueueNext
    \/ KillStart
    \/ StartAgain

QueueRestartSpec == QueueRestartInit /\ [][QueueRestartNext]_vars


\* ============================================= linear_status.py on its own
\* One behaviour of StatusSpec is one call of check_issue_statuses.  The
\* tracker is the environment: each client.tools.execute call raises or
\* returns a value, chosen when the call is made.
statusFrame == << coordVars, schedVars, vcsVars, queueVars, addVars, workerVars, restartVars >>

StatusIds == {"T-1", "T-2", "T-3"}

\* what client.tools.execute can do: raise, or return result.output.value,
\* a dict that may lack "issue", whose issue may lack "state", whose state
\* may lack "type"
TrackerValues ==
    {[error |-> "not found"], [issue |-> [title |-> "t"]],
     [issue |-> [title |-> "t", state |-> [name |-> "Triage"]]]}
        \cup {[issue |-> [title |-> "t", state |-> [name |-> "n", type |-> t]]] :
                 t \in {"completed", "canceled", "started", "unstarted"}}
TrackerResponses ==
    {[raises |-> TRUE]} \cup {[raises |-> FALSE, value |-> v] : v \in TrackerValues}

\* the default {} of dict.get: a dict with none of the keys looked up
EmptyDict == [empty |-> TRUE]

\* get_issue_status, given what the call did; a status that treats a failed
\* call as done
get_issue_status_fail_closed(response, issue_identifier) ==
    IF response.raises
    THEN [identifier |-> issue_identifier, state_type |-> "completed"]
    ELSE [identifier |-> issue_identifier,
          state_type |-> get(get(get(response.value, "issue", EmptyDict),
                                 "state", EmptyDict), "type", "unknown")]
get_issue_status(response, issue_identifier) ==
    IF response.raises
    THEN [identifier |-> issue_identifier, state_type |-> "unknown"]
    ELSE LET issue == get(response.value, "issue", EmptyDict)
             state == get(issue, "state", EmptyDict)
         IN  [identifier |-> issue_identifier,
              state_type |-> get(state, "type", "unknown")]

\* status_map[identifier] = status
StatusPut(map, identifier, status) ==
    IF \E n \in DOMAIN map : map[n].identifier = identifier
    THEN [n \in DOMAIN map |->
             IF map[n].identifier = identifier THEN status ELSE map[n]]
    ELSE Append(map, status)

StatusInit ==
    /\ CoordinatorIdle
    /\ RestartIdle
    /\ WorkerIdle
    /\ SchedIdle
    /\ VcsIdle
    /\ QueueIdle
    /\ AddIdle
    /\ issue_identifiers \in SeqsUpTo(StatusIds, MaxListLen)
    /\ api_key_set \in BOOLEAN
    /\ cs_pc = "client"
    /\ cs_completed = {}
    /\ cs_cancelled = {}
    /\ status_map = << >>
    /\ tracker_calls = << >>

\* client = _create_arcade_client()
CreateClient ==
    /\ cs_pc = "client"
    /\ cs_pc' = IF api_key_set THEN "loop" ELSE "raised"
    /\ UNCHANGED << statusFrame, issue_identifiers, api_key_set, cs_completed,
                    cs_cancelled, status_map, tracker_calls >>

\* one iteration of `for i, identifier in enumerate(issue_identifiers)`
CheckIssue ==
    /\ cs_pc = "loop"
    /\ Len(tracker_calls) < Len(issue_identifiers)
    /\ \E response \in TrackerResponses :
          LET identifier == issue_identifiers[Len(tracker_calls) + 1]
              status == get_issue_status(response, identifier)
          IN  /\ tracker_calls' =
                    Append(tracker_calls,
                           [identifier |-> identifier, response |-> response])
              /\ status_map' = StatusPut(status_map, identifier, status)
              /\ IF status.state_type \in COMPLETED_STATE_TYPES
                 THEN /\ cs_completed' = cs_completed \cup {identifier}
                      /\ UNCHANGED cs_cancelled
                 ELSE IF status.state_type \in CANCELLED_STATE_TYPES
                 THEN /\ cs_cancelled' = cs_cancelled \cup {identifier}
                      /\ UNCHANGED cs_completed
                 ELSE UNCHANGED << cs_completed, cs_cancelled >>
    /\ UNCHANGED << statusFrame, issue_identifiers, api_key_set, cs_pc >>

\* return completed, cancelled, status_map
ReturnStatuses ==
    /\ cs_pc = "loop"
    /\ Len(tracker_calls) = Len(issue_identifiers)
    /\ cs_pc' = "returned"
    /\ UNCHANGED << statusFrame, issue_identifiers, api_key_set, cs_completed,
                    cs_cancelled, status_map, tracker_calls >>

StatusNext ==
    \/ CreateClient
    \/ CheckIssue
    \/ ReturnStatuses

StatusSpec == StatusInit /\ [][StatusNext]_vars


\* ===================================================== worker.py: main
\* One behaviour of WorkerSpec is one worker process, from main's try
\* statement (the arguments have been parsed) to the exit of the process.
\* The agent, the imports and the user's interrupt signal are the
\* environment; the signal is sent at most once.  write_result itself does
\* not fail: the coordinator has created the results directory.
workerFrame == << coordVars, schedVars, vcsVars, queueVars, addVars,
                 statusVars, restartVars >>

\* the step of run_worker that raises an Exception: the import before its
\* try statement, build_worker_prompt, create_worker_client, the session
\* with the agent
WorkerFaults == {"none", "import", "prompt", "client", "query"}

\* response_text: without a ```json block, with one that is not closed, with
\* a closed one that holds no JSON, a JSON list, or a JSON object
ResultJsons ==
    {[status |-> "error"], [status |-> "success"], [status |-> "failed"],
     [files_changed |-> << "a.py" >>]}
ResponseTexts ==
    {[block |-> "none"], [block |-> "unclosed"],
     [block |-> "closed", parses |-> "no"],
     [block |-> "closed", parses |-> "list"]}
        \cup {[block |-> "closed", parses |-> "dict", result_json |-> d] :
                 d \in ResultJsons}

\* status run_worker derives from response_text; "raise" when the parsing
\* raises something other than ValueError / JSONDecodeError
status_of_response(response_text) ==
    IF response_text.block # "closed" THEN "success"
    ELSE IF response_text.parses = "no" THEN "success"
    ELSE IF response_text.parses = "list" THEN "raise"
    ELSE IF get(response_text.result_json, "status", "None") = "error"
    THEN "error"
    ELSE "success"

\* asyncio.run(run_worker(args)) without interrupt: it raises, or returns
\* the result dict
run_worker(fault, response_text) ==
    IF fault = "import" THEN [raises |-> TRUE]
    ELSE IF fault # "none" \/ status_of_response(response_text) = "raise"
    THEN [raises |-> FALSE, result |-> [status |-> "error"]]
    ELSE [raises |-> FALSE,
          result |-> [status |-> status_of_response(response_text)]]

\* exit code of main's try body
exit_code_of(result) == IF result.status = "success" THEN 0 ELSE 1

WorkerInit ==
    /\ CoordinatorIdle
    /\ RestartIdle
    /\ SchedIdle
    /\ VcsIdle
    /\ QueueIdle
    /\ AddIdle
    /\ StatusIdle
    /\ w_pc = "run"
    /\ w_fault \in WorkerFaults
    /\ w_response \in ResponseTexts
    /\ w_result = << >>
    /\ descriptor \in {<< >>, << "stale" >>}
    /\ w_exit = << >>
    /\ w_interrupt = "none"

\* result = asyncio.run(run_worker(args))
RunWorker ==
    /\ w_pc = "run"
    /\ LET r == run_worker(w_fault, w_response)
       IN  IF r.raises
           THEN /\ w_pc' = "except_exc"
                /\ UNCHANGED w_result
           ELSE /\ w_pc' = "write"
                /\ w_result' = << r.result >>
    /\ UNCHANGED << workerFrame, w_fault, w_response, descriptor, w_exit,
                    w_interrupt >>

\* write_result(args.result_path, result); return 0 if ... else 1
WriteAndReturn ==
    /\ w_pc = "write"
    /\ descriptor' = << w_result[1].status >>
    /\ w_exit' = << exit_code_of(w_result[1]) >>
    /\ w_pc' = "exited"
    /\ UNCHANGED << workerFrame, w_fault, w_response, w_result, w_interrupt >>

\* except KeyboardInterrupt
ExceptKeyboardInterrupt ==
    /\ w_pc = "except_ki"
    /\ descriptor' = << "error" >>
    /\ w_exit' = << 130 >>
    /\ w_pc' = "exited"
    /\ UNCHANGED << workerFrame, w_fault, w_response, w_result, w_interrupt >>

\* except Exception
ExceptFatal ==
    /\ w_pc = "except_exc"
    /\ descriptor' = << "error" >>
    /\ w_exit' = << 1 >>
    /\ w_pc' = "exited"
    /\ UNCHANGED << workerFrame, w_fault, w_response, w_result, w_interrupt >>

\* the user's signal arrives.  In the try body it is handled by `except
\* KeyboardInterrupt`; a write_result it interrupts has not opened the file,
\* has truncated it, or has finished.  In the handler `except Exception`
\* nothing catches it and the interpreter ends the process (exit by SIGINT).
WorkerInterrupt ==
    /\ w_interrupt = "none"
    /\ w_pc \in {"run", "write", "except_exc"}
    /\ w_interrupt' = w_pc
    /\ \/ /\ w_pc = "run"
          /\ w_pc' = "except_ki"
          /\ UNCHANGED << descriptor, w_exit >>
       \/ /\ w_pc = "write"
          /\ w_pc' = "except_ki"
          /\ descriptor' \in {descriptor, << "truncated" >>,
                              << w_result[1].status >>}
          /\ UNCHANGED w_exit
       \/ /\ w_pc = "except_exc"
          /\ w_pc' = "exited"
          /\ descriptor' \in {descriptor, << "truncated" >>, << "error" >>}
          /\ w_exit' = << -2 >>
    /\ UNCHANGED << workerFrame, w_fault, w_response, w_result >>

WorkerNext ==
    \/ RunWorker
    \/ WriteAndReturn
    \/ ExceptKeyboardInterrupt
    \/ ExceptFatal
    \/ WorkerInterrupt

WorkerSpec == WorkerInit /\ [][WorkerNext]_vars


\* ======================================================== properties
\* position in the plan of the tier of an issue
TierPosOf(id) ==
    CHOOSE t \in 1..Len(plan) : id \in Range(plan[t].issue_ids)

\* identifiers the tracker classified completed or canceled at state sync
Skip == {id \in IssueIds :
            state_type[id] \in COMPLETED_STATE_TYPES \cup CANCELLED_STATE_TYPES}

HasWorktree(id) == \E w \in WorkerIndexes : worktree[w] = id
HasWorker(id) == \E p \in procs : p.issue_id = id
InWaves == pc \in {"wave", "setup", "gather", "collect"}
InMergePhase == pc \in {"merge", "merging", "retry_merge", "retry_merging"}

\* C1: no worktree exists and no worker runs for an issue of a tier while an
\* earlier tier of the plan has an issue that is neither skipped or merged
\* (completed) nor classified as failed
C1_NoWorkAheadOfEarlierTier ==
    \A id \in IssueIds :
        (HasWorktree(id) \/ HasWorker(id)) =>
            \A u \in 1..(TierPosOf(id) - 1) :
                Range(plan[u].issue_ids) \subseteq completed \cup failed_issues

\* a worker of the second tier runs after the first tier was merged in this run
C1_Witness ==
    /\ Len(plan) = 2
    /\ Range(plan[1].issue_ids) \cap Skip = {}
    /\ \E p \in procs : p.task # 0 /\ TierPosOf(p.issue_id) = 2

\* C2: when _run_tier_parallel has returned, the result map has one result
\* for every issue of the tier, and an issue whose worker wrote a descriptor
\* has the result of that worker
C2_OneResultPerIssue ==
    InMergePhase =>
        /\ ResultKeys(all_results) = Range(tier_issues)
        /\ \A id \in Range(tier_issues) :
              attempt[id] \in Descriptors =>
                  ResultStatus(all_results, id) = attempt[id]

\* C3: when the run has ended, for every issue that ended as failed, every
\* non-skipped issue of every later tier was given a worker (or was itself
\* classified)
C3_LaterTiersStillRun ==
    pc = "done" =>
        \A id \in failed_issues : \A j \in issue_lookup :
            (TierPosOf(j) > TierPosOf(id) /\ j \notin Skip) =>
                j \in spawned \cup failed_issues \cup completed_issues

\* C4: an issue whose worker of the current attempt exited without writing
\* its descriptor has an error result, and no merge is attempted for it
C4_MissingDescriptorIsError ==
    \A id \in IssueIds :
        attempt[id] = "nothing" =>
            /\ merging # id
            /\ id \in ResultKeys(all_results) =>
                   ResultStatus(all_results, id) = "error"

\* C5: in the merge phase of a tier every issue whose result is success gets
\* one merge attempt and is classified by its outcome: success adds it to
\* completed and deletes its branch, conflict adds it to re-queued, any other
\* failure adds it to failed; an issue is added to completed only by the step
\* that ends a successful merge of its branch
C5_MergeClassification ==
    [][ /\ (/\ pc = "merge"
            /\ mi < Len(all_results)
            /\ all_results[mi + 1].status = "success"
            /\ << pc, mi >>' # << pc, mi >>)
           => /\ merging' = all_results[mi + 1].issue_id
              /\ merging' \notin DOMAIN merge_results
        /\ (pc = "merging" /\ pc' = "merge")
           => /\ mr'.success =>
                    /\ merging \in completed'
                    /\ merging \in completed_issues'
                    /\ merging \in tier_completed_ids'
                    /\ merging \notin branches'
              /\ mr'.conflict =>
                    /\ merging \in requeued_issues'
                    /\ requeued' = Append(requeued, merging)
                    /\ completed' = completed
              /\ (~mr'.success /\ ~mr'.conflict) =>
                    /\ merging \in failed_issues'
                    /\ completed' = completed
        /\ (pc = "merge" /\ pc' = "tier_loop")
           => DOMAIN merge_results =
                  {id \in ResultKeys(all_results) :
                      ResultStatus(all_results, id) = "success"}
        /\ (completed' # completed /\ pc # "sync")
           => /\ pc \in {"merging", "retry_merging"}
              /\ completed' = completed \cup {merging}
              /\ main_line' = main_line + 1
      ]_vars

\* a tier's merge phase in which one branch was merged and another was not
C5_Witness ==
    /\ pc = "merge"
    /\ \E x, y \in DOMAIN merge_results : merge_results[x] /\ ~merge_results[y]

\* C6: the number of live worker processes is at most the wave bound (1 in a
\* sequential tier, a one-issue tier and the retry pass, max_workers in a
\* parallel tier); the tasks of a wave are for consecutive issues of the tier
\* and carry the index wave_start + position
C6_LiveWorkersBounded ==
    /\ Cardinality(procs) <= mw
    /\ (InWaves /\ caller = "tier") =>
           mw = (IF plan[current_tier].sequential \/ Len(tier_issues) = 1
                 THEN 1 ELSE max_workers)
    /\ (InWaves /\ caller = "retry") => mw = 1
    /\ Len(spawn_tasks) <= mw
    /\ \A j \in DOMAIN spawn_tasks :
           /\ spawn_tasks[j].worker_index \in wave_start..(wave_start + mw - 1)
           /\ tier_issues[spawn_tasks[j].worker_index + 1] = spawn_tasks[j].issue_id

\* C7: no merge into the main line runs while a worker process is live
C7_MergeSerialized ==
    merging # NoIssue => procs = {}

\* C8: an issue in re-queued is not run again in the tier phase, and when
\* the run has ended an issue that was merged is no longer in re-queued
C8_RequeuedRetriedAfterTiers ==
    /\ (caller = "tier" /\ pc \in {"setup", "gather", "collect"}) =>
           Range(Wave) \cap Range(requeued) = {}
    /\ pc = "done" => requeued_issues \cap completed_issues = {}

\* C9: the tier indices the coordinator executes are strictly ascending
C9_TiersAscending ==
    \A a, b \in DOMAIN executed : a < b => executed[a] < executed[b]

\* C10: an issue the tracker classified completed or canceled gets no
\* worktree, no worker and no merge; an issue whose tracker call failed is
\* not skipped: it is in the work list of its tier when that tier is executed
C10_SkipExactlyDoneAndCancelled ==
    /\ \A id \in Skip :
           /\ ~HasWorktree(id)
           /\ id \notin spawned
           /\ id \notin Range(tier_issues)
           /\ id \notin ResultKeys(all_results)
           /\ merging # id
    /\ \A id \in IssueIds :
           state_type[id] = "unknown" =>
               /\ (pc = "tier_loop" /\ tier_iter = 0) => id \notin completed
               /\ (InWaves /\ caller = "tier" /\ current_tier = TierPosOf(id)
                   /\ id \notin completed) => id \in Range(tier_issues)

\* an issue whose tracker call failed runs while another issue is skipped
C10_Witness ==
    /\ Skip # {}
    /\ \E p \in procs : p.task # 0 /\ state_type[p.issue_id] = "unknown"


\* ------------------------------------------------- scheduler.py (SchedSpec)
\* the identifiers of a list that are not in C, in list order
RECURSIVE NotIn(_, _)
NotIn(ids, C) ==
    IF ids = << >> THEN << >>
    ELSE (IF Head(ids) \in C THEN << >> ELSE << Head(ids) >>)
             \o NotIn(Tail(ids), C)

\* C11: get_ready_issues returns the first tier in plan order with an
\* identifier not in C, with exactly that tier's identifiers not in C in
\* tier order (a non-empty list); every earlier tier has issue_ids within C;
\* when every identifier of every tier is in C it returns [] and no tier
C11_GetReadyFirstOpenTier ==
    ready # << >> =>
        LET p == sched_plan[1].tiers
            C == ready[1].completed
            r == ready[1].ret
            open == {n \in DOMAIN p : ~(Range(p[n].issue_ids) \subseteq C)}
        IN  IF open = {}
            THEN r.tier_pos = 0 /\ r.ready_ids = << >>
            ELSE /\ r.tier_pos \in open
                 /\ \A u \in 1..(r.tier_pos - 1) :
                        Range(p[u].issue_ids) \subseteq C
                 /\ r.ready_ids = NotIn(p[r.tier_pos].issue_ids, C)
                 /\ r.ready_ids # << >>

\* get_ready_issues skipped a finished tier and returned part of the next
C11_Witness ==
    /\ ready # << >>
    /\ ready[1].ret.tier_pos = 2
    /\ Len(ready[1].ret.ready_ids) = 1
    /\ Len(sched_plan[1].tiers[2].issue_ids) = 2
    /\ sched_plan[1].tiers[1].issue_ids # << >>

\* the (tier position, list position) pairs at which a plan holds an id
Places(p, x) ==
    {<< n, k >> \in (DOMAIN p.tiers) \X (1..MaxListLen) :
        k \in DOMAIN p.tiers[n].issue_ids /\ p.tiers[n].issue_ids[k] = x}

\* every identifier of the issue list is at exactly one place of the built
\* plan, and total_issues is the length of the issue list
OnePlaceEach ==
    /\ \A n \in DOMAIN issues :
           Cardinality(Places(sched_plan[1], issues[n].id)) = 1
    /\ sched_plan[1].total_issues = Len(issues)

\* no two issues of the list have the same identifier
DistinctIds ==
    \A a, b \in DOMAIN issues : a # b => issues[a].id # issues[b].id

\* C12 (as stated): for any issue list, every input identifier appears in
\* exactly one tier of the plan built by build_plan, exactly once in it, and
\* total_issues is the number of input issues
C12_EveryIdInOneTier ==
    origin = "build_plan" => OnePlaceEach

\* C12 (amended): for any issue list whose identifiers are pairwise
\* distinct, every input identifier appears in exactly one tier of the built
\* plan, exactly once in it; for any issue list total_issues is the number
\* of input issues
C12_DistinctIdsInOneTier ==
    origin = "build_plan" =>
        /\ DistinctIds => OnePlaceEach
        /\ sched_plan[1].total_issues = Len(issues)

\* a plan built from two issues with distinct identifiers in one tier
C12_Witness ==
    /\ origin = "build_plan"
    /\ Len(issues) = 2
    /\ DistinctIds
    /\ Len(sched_plan[1].tiers) = 1

\* C13: the tiers of a built plan have strictly ascending indices and none
\* is empty; the empty issue list gives a plan with no tiers
C13_TiersAscendingNonEmpty ==
    origin = "build_plan" =>
        LET ts == sched_plan[1].tiers
        IN  /\ \A a, b \in DOMAIN ts : a < b => ts[a].tier < ts[b].tier
            /\ \A a \in DOMAIN ts : ts[a].issue_ids # << >>
            /\ issues = << >> => ts = << >>

\* a plan of two tiers built from a list that names the later tier first
C13_Witness ==
    /\ origin = "build_plan"
    /\ Len(sched_plan[1].tiers) = 2
    /\ sched_plan[1].tiers[2].issue_ids = << issues[1].id >>

\* the category table as the claim states it
TableTier(c) ==
    CASE c = "setup" -> 1
      [] c = "backend" -> 2
      [] c \in {"frontend", "a2ui-catalog"} -> 3
      [] c = "feature" -> 4
      [] c = "styling" -> 5
      [] c = "testing" -> 6
      [] c = "integration" -> 7
      [] OTHER -> 4

TierAsWritten(issue) ==
    IF "category" \in DOMAIN issue THEN TableTier(issue.category) ELSE 4

TierIgnoringCase(issue) ==
    IF "category" \in DOMAIN issue THEN TableTier(lower(issue.category)) ELSE 4

\* the built plan has each issue in the tier the table gives for it (for
\* its category as written, or in lower case) and nowhere else, and a tier
\* is sequential exactly when its index is 1 or 7
PlacedBy(ignoring_case) ==
    LET ts == sched_plan[1].tiers
        Expected(issue) == IF ignoring_case THEN TierIgnoringCase(issue)
                           ELSE TierAsWritten(issue)
    IN  /\ \A n \in DOMAIN issues :
               \E a \in DOMAIN ts :
                   /\ ts[a].tier = Expected(issues[n])
                   /\ issues[n].id \in Range(ts[a].issue_ids)
        /\ \A a \in DOMAIN ts : \A x \in Range(ts[a].issue_ids) :
               \E n \in DOMAIN issues :
                   issues[n].id = x /\ Expected(issues[n]) = ts[a].tier
        /\ \A a \in DOMAIN ts : ts[a].sequential <=> ts[a].tier \in {1, 7}

\* C14 (as stated): build_plan places every issue in the tier the category
\* table gives for its category, every issue of any other or missing
\* category in tier 4; a tier is sequential exactly when its index is 1 or 7
C14_TierByCategoryTable ==
    origin = "build_plan" => PlacedBy(FALSE)

\* C14 (amended): build_plan places every issue in the tier the category
\* table gives for its category in lower case, every issue whose lower-case
\* category is not in the table or is missing in tier 4; a tier is
\* sequential exactly when its index is 1 or 7
C14_TierByLowerCaseCategory ==
    origin = "build_plan" => PlacedBy(TRUE)

\* a plan built from an issue without category and one of category "Setup"
C14_Witness ==
    /\ origin = "build_plan"
    /\ Len(issues) = 2
    /\ "category" \notin DOMAIN issues[1]
    /\ "category" \in DOMAIN issues[2]
    /\ issues[2].category = "Setup"

\* C15: load_plan after save_plan returns a plan equal to the saved one in
\* created_at, max_parallelism, total_issues and, tier by tier in order, in
\* index, description, sequential flag and identifier list; load_plan
\* returns no plan when the file is absent
C15_SaveLoadRoundTrip ==
    loaded # << >> =>
        IF plan_file = << >>
        THEN loaded[1] = << >>
        ELSE /\ loaded[1] # << >>
             /\ LET q == loaded[1][1]
                    o == sched_plan[1]
                IN  /\ q.created_at = o.created_at
                    /\ q.max_parallelism = o.max_parallelism
                    /\ q.total_issues = o.total_issues
                    /\ Len(q.tiers) = Len(o.tiers)
                    /\ \A n \in DOMAIN o.tiers :
                           /\ q.tiers[n].tier = o.tiers[n].tier
                           /\ q.tiers[n].description = o.tiers[n].description
                           /\ q.tiers[n].sequential = o.tiers[n].sequential
                           /\ q.tiers[n].issue_ids = o.tiers[n].issue_ids

\* a saved plan with a sequential and a parallel tier was loaded again
C15_Witness ==
    /\ loaded # << >>
    /\ plan_file # << >>
    /\ Len(sched_plan[1].tiers) = 2
    /\ sched_plan[1].tiers[1].sequential
    /\ ~sched_plan[1].tiers[2].sequential
    /\ sched_plan[1].tiers[2].issue_ids # << >>


\* ---------------------------------------------------- merge.py (VcsSpec)
\* C16: every result of merge_branch is exactly one of: success without
\* conflict; conflict without success; neither, with a non-empty error
\* message -- whatever the exit code and the two streams of `git merge` were
C16_MergeResultTrichotomy ==
    \A k \in 1..Len(merge_result) :
        LET r == merge_result[k]
            Succeeded == r.success /\ ~r.conflict
            Conflicted == r.conflict /\ ~r.success
            OtherError == ~r.success /\ ~r.conflict /\ r.error # << >>
        IN  /\ Succeeded \/ Conflicted \/ OtherError
            /\ ~(Succeeded /\ Conflicted)
            /\ ~(Succeeded /\ OtherError)
            /\ ~(Conflicted /\ OtherError)


\* ------------------------------------------- queue_runner.py (QueueSpec)
\* _run_job has been left for the job `start` is at
JobLeft == q_pos > 0 /\ job_log[job].ran /\ q_pc \in {"save", "done"}
SwappingJob == state_jobs[job].spec_path # APP_SPEC_PATH

\* C17: for a job whose spec file is not the canonical path, the canonical
\* file holds the job's spec bytes while its subprocess executes, and when
\* the job is left, on whatever path, the canonical file is what it was
\* before the job (absent if it was absent)
C17_SpecSwappedAndRestored ==
    /\ q_pc = "wait" /\ SwappingJob
          => app_spec = spec_bytes(state_jobs[job].spec_path)
    /\ JobLeft /\ SwappingJob => app_spec = job_log[job].before


\* `start` has run job k of state.jobs and gone past it
JobDone(k) == job_log[k].ran /\ (q_pc = "done" \/ k # job)

\* the statuses the run of a job calls for: completed for exit code 0,
\* interrupted for exit code 130 or a user interrupt during the job, failed
\* for another exit code, a missing spec file or another exception
StatusesFor(h) ==
    {st \in JobStatus :
        \/ st = "completed" /\ h.rc = << 0 >>
        \/ st = "interrupted" /\ (h.rc = << 130 >> \/ h.ki)
        \/ st = "failed" /\ \/ h.rc # << >> /\ h.rc # << 0 >> /\ h.rc # << 130 >>
                            \/ h.missing
                            \/ h.exc}

\* C18: after `start` (not a dry run) has run a job, the persisted status of
\* the job is the one its run calls for, and the persisted queue has been
\* updated after the job
C18_PersistedStatusOfRunJob ==
    ~dry_run =>
        \A k \in 1..Len(state_jobs) :
            JobDone(k) =>
                /\ queue_file[k] = state_jobs[k]
                /\ queue_file[k].status \in StatusesFor(job_log[k])


\* a job `start` has run has ended with status interrupted
EndedInterrupted(k) == JobDone(k) /\ state_jobs[k].status = "interrupted"

\* C19: once a job run by `start` (not a dry run) has ended with status
\* interrupted, the invocation starts no later job, every job it has not
\* run keeps its status, and it returns 130
C19_InterruptedJobStopsStart ==
    [][~dry_run =>
          /\ \A p \in 1..Len(processable') :
                EndedInterrupted(processable[p])' => q_pos' <= p
          /\ \A k \in 1..Len(state_jobs) :
                ~job_log'[k].ran => state_jobs'[k] = state_jobs[k]
          /\ q_pc' = "done" /\ (\E k \in 1..Len(state_jobs') : EndedInterrupted(k)')
                => exit_status' = << 130 >>]_vars


\* the job at position p of `processable` was run and ended failed
EndedFailed(p) ==
    /\ job_log[processable[p]].ran
    /\ state_jobs[processable[p]].status = "failed"

\* no user interrupt arrived during the jobs at positions p .. r
NoInterruptIn(p, r) == \A x \in p..r : ~job_log[processable[x]].ki

\* C20: a job that ended failed (spec file missing, exit code other than 0
\* and 130, exception) does not stop the queue: when `start` has returned,
\* every later processable job has been run, unless the user interrupted a
\* job in between
C20_FailedJobDoesNotStopQueue ==
    q_pc = "done" =>
        \A p \in 1..Len(processable) : \A r \in 1..Len(processable) :
            p < r /\ EndedFailed(p) /\ NoInterruptIn(p, r - 1)
                => job_log[processable[r]].ran

C20_Witness ==
    /\ q_pc = "done"
    /\ ~dry_run
    /\ Len(processable) = 2
    /\ EndedFailed(1)
    /\ job_log[processable[1]].rc = << 1 >>
    /\ state_jobs[processable[2]].status = "completed"


\* the jobs whose subprocess is executing
Running == {k \in 1..Len(job_log) : job_log[k].child = "running"}

\* job k was processable when the queue was loaded and precedes job n in
\* the queue list
EarlierProcessable(k, n) ==
    k < n /\ \E p \in 1..Len(processable) : processable[p] = k

\* C21: `start` runs the jobs one at a time in list order: while the
\* subprocess of a job executes, every earlier processable job has been run,
\* its subprocess is no longer executing and its final status is persisted;
\* at most one subprocess executes at any time
C21_OneJobAtATimeInListOrder ==
    /\ Cardinality(Running) <= 1
    /\ \A n \in Running : \A k \in 1..Len(state_jobs) :
          EarlierProcessable(k, n) =>
              /\ job_log[k].ran
              /\ job_log[k].child # "running"
              /\ state_jobs[k].status \in {"completed", "failed", "interrupted"}
              /\ queue_file[k] = state_jobs[k]

C21_Witness ==
    /\ Running = {2}
    /\ job_log[1].child = "exited"
    /\ queue_file[1].status = "completed"


\* --------------------------------------------- queue_runner.py (AddSpec)
\* identifiers in the persisted queue are pairwise distinct
DistinctJobIds ==
    \A a \in 1..Len(queue_file) : \A b \in 1..Len(queue_file) :
        a # b => queue_file[a].id # queue_file[b].id

\* the `add` command with arguments a is to be rejected
ToReject(a) ==
    \/ \E k \in 1..Len(queue_file) : queue_file[k].id = a.id
    \/ ~exists(a.spec_path)

\* C22: identifiers in the persisted queue stay pairwise distinct: an add
\* whose identifier is in the queue or whose spec file does not exist
\* returns non-zero and leaves the persisted queue as it is; an accepted add
\* appends one pending job and changes no existing job
C22_AddKeepsIdsDistinct ==
    [][/\ DistinctJobIds'
       /\ \A k \in 1..Len(add_args') :
             IF ToReject(add_args'[k])
             THEN /\ exit_status' # << 0 >>
                  /\ exit_status' # << >>
                  /\ queue_file' = queue_file
             ELSE /\ Len(queue_file') = Len(queue_file) + 1
                  /\ \A x \in 1..Len(queue_file) : queue_file'[x] = queue_file[x]
                  /\ queue_file'[Len(queue_file')] =
                        QueueJob(add_args'[k].id, add_args'[k].spec_path,
                                 "pending")]_vars

\* an add rejected for its identifier alone, on a queue that holds a job
\* that is not pending
C22_Witness ==
    /\ add_args # << >>
    /\ exit_status = << 1 >>
    /\ exists(add_args[1].spec_path)
    /\ \E k \in 1..Len(queue_file) :
          queue_file[k].id = add_args[1].id /\ queue_file[k].status = "completed"
    /\ Len(queue_file) = MaxJobs + 1


\* ------------------------------------ queue_runner.py (QueueSpec, again)
\* sel lists, in list order, exactly the jobs of `jobs` whose status is
\* pending, interrupted or running
IsProcessableFilter(sel, jobs) ==
    /\ \A p \in 1..Len(sel) : \A r \in 1..Len(sel) : p < r => sel[p] < sel[r]
    /\ {sel[p] : p \in 1..Len(sel)} =
          {k \in 1..Len(jobs) :
              jobs[k].status \in {"pending", "interrupted", "running"}}

\* C23: for every queue document the processable filter returns exactly the
\* jobs whose status is pending, interrupted or running, in list order, and
\* `start` runs no job outside that list: a completed or failed job is not
\* run again
C23_ProcessableFilter ==
    [][/\ q_pc = "start" => IsProcessableFilter(processable', queue_file)
       /\ q_pc # "start" => processable' = processable
       /\ \A k \in 1..Len(job_log') :
             job_log'[k].ran =>
                 \E p \in 1..Len(processable') : processable'[p] = k]_vars

\* `start` has run the second job of a queue whose first job had failed
C23_Witness ==
    /\ q_pc = "done"
    /\ processable = << 2 >>
    /\ queue_file[1].status = "failed"
    /\ ~job_log[1].ran
    /\ job_log[2].ran


\* ------------------------------------------ linear_status.py (StatusSpec)
\* the call returned a value whose issue has a state of type t
ReturnedType(response, t) ==
    /\ ~response.raises
    /\ "issue" \in DOMAIN response.value
    /\ "state" \in DOMAIN response.value.issue
    /\ "type" \in DOMAIN response.value.issue.state
    /\ response.value.issue.state.type = t

\* identifiers for which some call returned state type t
WithReturnedType(t) ==
    {tracker_calls[n].identifier : n \in
        {x \in 1..Len(tracker_calls) : ReturnedType(tracker_calls[x].response, t)}}

StatusMapType(identifier) ==
    status_map[CHOOSE n \in 1..Len(status_map) :
                   status_map[n].identifier = identifier].state_type

\* what the claim says of a returned check_issue_statuses
ClassifiedPerIdentifier ==
    /\ \A id \in Range(issue_identifiers) :
          Cardinality({n \in 1..Len(tracker_calls) :
                          tracker_calls[n].identifier = id}) = 1
    /\ {tracker_calls[n].identifier : n \in 1..Len(tracker_calls)}
          = Range(issue_identifiers)
    /\ cs_completed = WithReturnedType("completed")
    /\ cs_cancelled = WithReturnedType("canceled")
    /\ cs_completed \cap cs_cancelled = {}
    /\ \A n \in 1..Len(tracker_calls) :
          tracker_calls[n].response.raises =>
              /\ StatusMapType(tracker_calls[n].identifier) = "unknown"
              /\ tracker_calls[n].identifier \notin cs_completed \cup cs_cancelled
    /\ {status_map[n].identifier : n \in 1..Len(status_map)}
          = Range(issue_identifiers)

DistinctIdentifiers ==
    \A a \in 1..Len(issue_identifiers) : \A b \in 1..Len(issue_identifiers) :
        a # b => issue_identifiers[a] # issue_identifiers[b]

\* C24 (as stated): check_issue_statuses makes one tracker call per
\* identifier; the completed set is exactly the identifiers whose returned
\* state type is completed, the cancelled set those whose type is canceled,
\* the sets are disjoint; an identifier whose call fails has state type
\* unknown and is in neither set; the status map has every identifier
C24_ClassifiedPerIdentifier ==
    cs_pc = "returned" => ClassifiedPerIdentifier

\* C24 (amended): the same, for a list of pairwise distinct identifiers
C24_DistinctIdentifiersClassified ==
    cs_pc = "returned" /\ DistinctIdentifiers => ClassifiedPerIdentifier

\* two identifiers, the call for the first raised, the second is completed
C24_Witness ==
    /\ cs_pc = "returned"
    /\ DistinctIdentifiers
    /\ Len(tracker_calls) = 2
    /\ tracker_calls[1].response.raises
    /\ cs_completed = {issue_identifiers[2]}


\* ------------------------------------------------ worker.py (WorkerSpec)
\* the file at the result path is a descriptor this process wrote
DescriptorWritten == descriptor \in {<< "success" >>, << "error" >>}

\* C25: on every exit path of the worker process a result descriptor has
\* been written to the result path; the exit code is 0 exactly when the
\* descriptor has status success, 130 on user interrupt, 1 otherwise
C25_DescriptorOnEveryExit ==
    w_pc = "exited" =>
        /\ DescriptorWritten
        /\ w_exit = << 0 >> <=> descriptor = << "success" >>
        /\ w_interrupt # "none" => w_exit = << 130 >>
        /\ w_interrupt = "none" /\ descriptor # << "success" >>
              => w_exit = << 1 >>


\* C26: at no time do two live workers share a worktree directory
\* (.workers/w<worker_index>) or a branch (parallel/<issue_id>); a directory
\* is taken for a new worker only when the worker that owned it has exited
C26_LiveWorkersShareNothing ==
    \A p, q \in procs :
        p # q => /\ p.worker_index # q.worker_index
                 /\ p.issue_id # q.issue_id


\* the run is past phase 2: it has a plan
HasPlan == pc \notin {"start", "init", "plan", "rejected", "returned"}

\* the plan file differs from what this run would build
FileDiffersFromRun ==
    /\ plan_file # << >>
    /\ plan_file[1].max_parallelism # max_workers
    /\ \E n \in DOMAIN plan : Range(plan[n].issue_ids) \ issue_lookup # {}

\* C27: the plan file is written only in phase 2 and only when there is no
\* plan file, with the plan built from this run's issues and max_workers; a
\* plan file that exists is never rewritten by any step, and the plan of the
\* run is the plan the file holds
C27_PlanFileWrittenOnce ==
    [][/\ plan_file' # plan_file =>
             /\ pc = "plan"
             /\ plan_file = << >>
             /\ plan_file' = save_plan(build_plan(ProjectIssues(issue_lookup),
                                                  max_workers))
       /\ HasPlan' => /\ plan_file' # << >>
                      /\ plan' = from_dict(plan_file'[1]).tiers]_vars

\* a run that loaded a plan built from another issue list with another
\* max_workers has run workers and reached its retry phase
C27_Witness ==
    /\ pc = "retry"
    /\ FileDiffersFromRun
    /\ plan_file[1].created_at = PlanFileDate
    /\ spawned # {}

\* the range of max_workers the run accepts
AcceptedRange == 1..5

MergePending ==
    {n \in DOMAIN all_results :
        n > mi /\ all_results[n].status = "success"}

\* the worktrees of a wave after the first are being created
LaterWaveSetup == pc = "setup" /\ wave_start > 0

\* C29: when the worktrees of a later wave of a tier are created,
\* the successful branches of the earlier waves have been merged
C29_MergeBeforeNextWave == LaterWaveSetup => MergePending = {}


\* the issues this step starts a worker process for
NewlySpawned == {p.issue_id : p \in {q \in procs' \ procs : q.task # 0}}

\* C30: an issue that already had a worker is given another one only when
\* its merge conflicted; an issue recorded as failed (worker error, missing
\* descriptor, merge failure without conflict) never gets another worker
C30_OnlyConflictsAttemptedAgain ==
    [][\A id \in NewlySpawned :
          id \in spawned => /\ id \in Range(requeued)
                            /\ id \notin failed_issues]_vars

\* C31: each issue occurs at most once in the retry queue (the list
\* `requeued`), so the retry pass runs one wave per merge-conflicted issue
C31_RetryQueueDistinct ==
    \A a, b \in DOMAIN requeued : a # b => requeued[a] # requeued[b]

PassedOver ==
    {n \in DOMAIN plan :
        /\ \A id \in Range(plan[n].issue_ids) :
              state_type[id] \in COMPLETED_STATE_TYPES \cup CANCELLED_STATE_TYPES
        /\ \E k \in DOMAIN executed : plan[n].tier < executed[k]}

\* C33: for every tier whose non-skipped issue list is empty the coordinator
\* starts no worker and increments tiers_completed once: after the tier loop
\* the counter holds one increment per executed tier pass and one per such
\* tier
C33_EmptyTierCountedOnce ==
    pc = "retry" =>
        /\ \A n \in PassedOver : Range(plan[n].issue_ids) \cap spawned = {}
        /\ tiers_completed >= Len(executed) + Cardinality(PassedOver)

\* C34: while the subprocess of a job executes, the persisted queue document
\* records that job with status running
C34_PersistedRunningWhileChildRuns ==
    q_pc = "wait" =>
        /\ state_jobs[job].status = "running"
        /\ queue_file[job].status = "running"

\* C35: between the waves and when the merge phase begins, every worktree
\* the coordinator created for the finished wave has been removed
C35_WorktreesRemovedAfterWave ==
    pc \in {"wave", "merge", "merging", "retry_merge", "retry_merging"} =>
        \A w \in WorkerIndexes : worktree[w] = NoIssue

\* C36: when a coordinator run ends, the sets completed, failed and
\* re-queued of the overall progress are pairwise disjoint
C36_ProgressSetsDisjoint ==
    pc \in {"cleanup", "done"} =>
        /\ completed_issues \cap failed_issues = {}
        /\ completed_issues \cap requeued_issues = {}
        /\ failed_issues \cap requeued_issues = {}

\* the worktrees this step creates: worker index and issue
NewWorktrees ==
    {w \in WorkerIndexes : worktree'[w] # NoIssue /\ worktree'[w] # worktree[w]}

\* C37: once an issue is in completed, no worktree is created and no worker
\* is started for it again in the run, in the tier phase or the retry pass
C37_CompletedNeverRunAgain ==
    [][/\ \A w \in NewWorktrees : worktree'[w] \notin completed
       /\ NewlySpawned \cap completed = {}]_vars

\* C38: a job accepted by an `add` command that ran while `start` was
\* processing the queue is in the queue document when `start` has finished
C38_ConcurrentAddSurvivesStart ==
    (/\ q_pc = "done"
     /\ add_args # << >>
     /\ add_args[1].accepted) =>
        add_args[1].id \in existing_ids(queue_file)

\* C39: when a `start` process was killed while a job's subprocess ran and
\* `start` was invoked again, the canonical spec file has, once the second
\* invocation has processed the queue, the content it had before the first
\* invocation (absent if it was absent).  The second invocation has
\* processed the queue when its loop has run over every processable job and
\* cmd_start has returned 0.
C39_SpecRestoredAfterKillAndRestart ==
    (killed /\ q_pc = "done" /\ exit_status = << 0 >>) =>
        app_spec = spec_before

\* C40: when every worker process and every VCS command terminates, a
\* coordinator run terminates (rejected arguments, no project state, or the
\* final summary), and it ends in a state where the tier loop has made at
\* most as many passes as the plan has tiers, the retry pass has gone through
\* every entry of the retry queue, and no worktree is left
C40_CoordinatorRunTerminates ==
    <>(/\ pc \in {"done", "rejected", "returned"}
       /\ tier_iter <= Len(plan)
       /\ Len(executed) <= tier_iter
       /\ ri = Len(requeued)
       /\ \A w \in WorkerIndexes : worktree[w] = NoIssue)
\* a run that made two passes of the tier loop and one retry wave has ended
C40_Witness ==
    /\ pc = "done"
    /\ Len(executed) = 2
    /\ Len(requeued) >= 1
    /\ ri = Len(requeued)

====
